---- MODULE Spec2Model ----
(***************************************************************************)
(* Round controllers of 2TruthsAndAnAi.                                    *)
(*                                                                         *)
(*   dec   the frame of GameManager.run_round (deception variant,          *)
(*         src/src/game_manager.py)                                        *)
(*   quiz  the frame of WikiQuizGameManager.run_round (quiz variant,       *)
(*         src/src/wiki_game_manager.py)                                   *)
(*                                                                         *)
(* Every await of an agent is a suspension point: one action issues the    *)
(* call, the next one resumes with the agent's output or its exception.    *)
(* Text is a sequence of one-character strings; a confidence is a number   *)
(* of tenths (0.8 is 8).                                                   *)
(***************************************************************************)
EXTENDS Integers, Sequences, FiniteSets, TLC

VARIABLES dec, quiz, ext, client, mapper, parser, shared, session

vars == <<dec, quiz, ext, client, mapper, parser, shared, session>>

\* Python's None. Every object of the model is a record, so None is one too.
NULL == [none |-> TRUE]

(***************************************************************************)
(* Bounds of the model.                                                    *)
(***************************************************************************)
\* longest list of facts the researcher returns
MaxFacts == 3

(***************************************************************************)
(* models.py                                                               *)
(***************************************************************************)
\* Fields of GameState that have no default: the constructor needs them.
GameStateRequired == {"wikipedia_page_title", "wikipedia_url"}

\* Fields of GameState with their defaults (round_id, a fresh uuid, left out).
GameStateDefaults ==
    [selected_sections |-> NULL, question |-> NULL, source_citation |-> NULL,
     available_links |-> <<>>, user_answer |-> NULL, is_correct |-> NULL,
     correction_attempts |-> 0]

GameStateFields == GameStateRequired \cup DOMAIN GameStateDefaults

ValidationError == [raised |-> "ValidationError"]

\* GameState(**kwargs): pydantic ignores the keywords that name no field and
\* raises ValidationError when a required field is missing.
GameState(kwargs) ==
    IF GameStateRequired \subseteq DOMAIN kwargs
    THEN [f \in GameStateFields |->
            IF f \in DOMAIN kwargs THEN kwargs[f] ELSE GameStateDefaults[f]]
    ELSE ValidationError

\* Fact(content, source, is_lie)
Fact(content, is_lie) == [content |-> content, source |-> "src", is_lie |-> is_lie]

\* Verdict(selection, confidence, reasoning, ...)
Verdict(selection, confidence) ==
    [selection |-> selection, confidence |-> confidence, reasoning |-> "r"]

\* ValidationResult(is_valid, confidence, issues, correction_note)
ValidationResult(is_valid, confidence) ==
    [is_valid |-> is_valid, confidence |-> confidence,
     issues |-> NULL, correction_note |-> NULL]

(***************************************************************************)
(* Sequence helpers                                                        *)
(***************************************************************************)
\* random.shuffle(s): the orders s may end in
Shuffles(s) ==
    {[i \in 1..Len(s) |-> s[p[i]]] :
        p \in {q \in [1..Len(s) -> 1..Len(s)] :
                 \A i, j \in 1..Len(s) : q[i] = q[j] => i = j}}

\* s[:n]
Take(s, n) == SubSeq(s, 1, IF Len(s) < n THEN Len(s) ELSE n)

\* getattr: a record has the attributes of its class only
HasAttr(obj, name) == name \in DOMAIN obj

(***************************************************************************)
(* Text.  A Python str is a sequence of one-character strings.             *)
(***************************************************************************)
UpperCase ==
    <<"A", "B", "C", "D", "E", "F", "G", "H", "I", "J", "K", "L", "M",
      "N", "O", "P", "Q", "R", "S", "T", "U", "V", "W", "X", "Y", "Z">>

LowerCase ==
    <<"a", "b", "c", "d", "e", "f", "g", "h", "i", "j", "k", "l", "m",
      "n", "o", "p", "q", "r", "s", "t", "u", "v", "w", "x", "y", "z">>

Digits == <<"0", "1", "2", "3", "4", "5", "6", "7", "8", "9">>

LowerChar(c) ==
    IF \E i \in 1..Len(UpperCase) : UpperCase[i] = c
    THEN LowerCase[CHOOSE i \in 1..Len(UpperCase) : UpperCase[i] = c]
    ELSE c

\* str.lower()
Lower(s) == [i \in 1..Len(s) |-> LowerChar(s[i])]

IsSpace(c) == c \in {" ", "\n", "\t"}

\* the first position from i on, and the last one up to i, that holds no space
RECURSIVE FirstNonSpace(_, _)
FirstNonSpace(s, i) ==
    IF i > Len(s) \/ ~IsSpace(s[i]) THEN i ELSE FirstNonSpace(s, i + 1)

RECURSIVE LastNonSpace(_, _)
LastNonSpace(s, i) ==
    IF i < 1 \/ ~IsSpace(s[i]) THEN i ELSE LastNonSpace(s, i - 1)

\* str.strip()
Strip(s) == SubSeq(s, FirstNonSpace(s, 1), LastNonSpace(s, Len(s)))

\* sub occurs in s at offset i (0-based)
OccursAt(s, sub, i) ==
    i + Len(sub) <= Len(s) /\ \A k \in 1..Len(sub) : s[i + k] = sub[k]

\* sub in s
Contains(s, sub) == \E i \in 0..(Len(s) - Len(sub)) : OccursAt(s, sub, i)

\* s.replace(old, new), old not empty: the occurrences of old from the left,
\* without overlap; i is the 0-based offset reached
RECURSIVE ReplaceFrom(_, _, _, _)
ReplaceFrom(s, old, new, i) ==
    IF ~\E j \in i..(Len(s) - Len(old)) : OccursAt(s, old, j)
    THEN SubSeq(s, i + 1, Len(s))
    ELSE LET j == CHOOSE m \in i..(Len(s) - Len(old)) :
                      /\ OccursAt(s, old, m)
                      /\ \A n \in i..(m - 1) : ~OccursAt(s, old, n)
         IN SubSeq(s, i + 1, j) \o new \o ReplaceFrom(s, old, new, j + Len(old))

Replace(s, old, new) == ReplaceFrom(s, old, new, 0)

\* s.split(): the maximal runs of non-space characters
RECURSIVE SplitFrom(_, _, _)
SplitFrom(s, i, word) ==
    IF i > Len(s) THEN (IF word = <<>> THEN <<>> ELSE <<word>>)
    ELSE IF IsSpace(s[i])
         THEN (IF word = <<>> THEN <<>> ELSE <<word>>) \o SplitFrom(s, i + 1, <<>>)
         ELSE SplitFrom(s, i + 1, Append(word, s[i]))

Split(s) == SplitFrom(s, 1, <<>>)

\* sep.join(parts)
RECURSIVE Join(_, _)
Join(sep, parts) ==
    IF parts = <<>> THEN <<>>
    ELSE IF Len(parts) = 1 THEN parts[1]
    ELSE parts[1] \o sep \o Join(sep, Tail(parts))

\* str(n), n >= 0
RECURSIVE Str(_)
Str(n) == IF n < 10 THEN <<Digits[n + 1]>> ELSE Str(n \div 10) \o <<Digits[(n % 10) + 1]>>

(***************************************************************************)
(* CitationExtractor (citation_extractor.py)                               *)
(***************************************************************************)
\* the abbreviations _split_into_sentences rewrites, in the order of the code
Abbreviations ==
    << <<<<"D", "r", ".">>, <<"D", "r">>>>, <<<<"M", "r", ".">>, <<"M", "r">>>>, <<<<"M", "r", "s", ".">>, <<"M", "r", "s">>>>, <<<<"M", "s", ".">>, <<"M", "s">>>>,
       <<<<"P", "r", "o", "f", ".">>, <<"P", "r", "o", "f">>>>,
       <<<<"S", "r", ".">>, <<"S", "r">>>>, <<<<"J", "r", ".">>, <<"J", "r">>>>,
       <<<<"U", ".", "S", ".">>, <<"U", "S">>>>, <<<<"U", ".", "K", ".">>, <<"U", "K">>>>
    >>

RECURSIVE ReplaceAbbreviations(_, _)
ReplaceAbbreviations(text, k) ==
    IF k > Len(Abbreviations) THEN text
    ELSE ReplaceAbbreviations(
             Replace(text, Abbreviations[k][1], Abbreviations[k][2]), k + 1)

\* len(sentence) > 10
MIN_SENTENCE_LEN == 10

\* the sentence a finished segment adds to the list, if any
KeptSentence(current) ==
    LET sentence == Strip(current)
    IN IF Len(sentence) > MIN_SENTENCE_LEN THEN <<sentence>> ELSE <<>>

\* for char in text: ... ; then the remaining text
RECURSIVE ScanSentences(_, _, _)
ScanSentences(text, i, current) ==
    IF i > Len(text)
    THEN (IF current # <<>> THEN KeptSentence(current) ELSE <<>>)
    ELSE LET cur == Append(current, text[i])
         IN IF text[i] \in {".", "!", "?"} /\ Len(cur) > 1
            THEN KeptSentence(cur) \o ScanSentences(text, i + 1, <<>>)
            ELSE ScanSentences(text, i + 1, cur)

_split_into_sentences(text) == ScanSentences(ReplaceAbbreviations(text, 1), 1, <<>>)

\* _contains_answer(sentence, answer)
_contains_answer(sentence, answer) ==
    LET sentence_lower == Lower(sentence)
        answer_lower == Lower(answer)
        answer_words == Split(answer_lower)
    IN IF Contains(sentence_lower, answer_lower) THEN TRUE
       ELSE IF Len(answer_words) > 1
            THEN \A k \in 1..Len(answer_words) :
                    Len(answer_words[k]) > 2 => Contains(sentence_lower, answer_words[k])
            ELSE FALSE

SourceCitation(sentence, section_title, section_url, sentence_index) ==
    [sentence |-> sentence, section_title |-> section_title,
     section_url |-> section_url, sentence_index |-> sentence_index]

\* extract_citation_for_question: the candidates in document order, the first
\* one returned (for one candidate and for several alike)
extract_citation_for_question(source_text, question_text, correct_answer, section_title, section_url) ==
    LET sentences == _split_into_sentences(source_text)
        candidates == {idx \in 1..Len(sentences) :
                          _contains_answer(sentences[idx], correct_answer)}
    IN IF candidates = {} THEN NULL
       ELSE LET idx == CHOOSE i \in candidates : \A j \in candidates : i <= j
            IN SourceCitation(Strip(sentences[idx]), section_title, section_url,
                              idx - 1)

\* the search loop of extract_citation from index idx (0-based) on: the first
\* sentence that contains the answer, stripped, with its index
RECURSIVE FirstCitation(_, _, _, _, _)
FirstCitation(sentences, answer_text, section_title, section_url, idx) ==
    IF idx >= Len(sentences) THEN NULL
    ELSE IF _contains_answer(sentences[idx + 1], answer_text)
         THEN SourceCitation(Strip(sentences[idx + 1]), section_title,
                             section_url, idx)
         ELSE FirstCitation(sentences, answer_text, section_title, section_url,
                            idx + 1)

\* a faulty variant of the search loop: the last sentence that contains the
\* answer wins
extract_citation_last_match(source_text, answer_text, section_title, section_url) ==
    LET sentences == _split_into_sentences(source_text)
        hits == {idx \in 1..Len(sentences) :
                    _contains_answer(sentences[idx], answer_text)}
    IN IF hits = {} THEN NULL
       ELSE LET idx == CHOOSE i \in hits : \A j \in hits : j <= i
            IN SourceCitation(Strip(sentences[idx]), section_title, section_url,
                              idx - 1)

\* extract_citation(source_text, answer_text, section_title, section_url)
extract_citation(source_text, answer_text, section_title, section_url) ==
    FirstCitation(_split_into_sentences(source_text), answer_text,
                  section_title, section_url, 0)

\* the defaults of section_title and section_url
DefaultSectionTitle == <<"U", "n", "k", "n", "o", "w", "n">>

DefaultSectionUrl == <<>>

\* sentences the source texts of the extractor are made of
Fragments ==
    { <<"D", "r", ".", " ", "S", "m", "i", "t", "h", " ", "a", "r", "r", "i", "v", "e", "d", ".">>,
      <<"H", "e", " ", "l", "e", "f", "t", ".">>,
      <<"H", "e", " ", "i", "s", " ", "o", "l", "d", ".">>,
      <<"T", "h", "e", " ", "t", "r", "e", "a", "t", "y", " ", "w", "a", "s", " ", "s", "i", "g", "n", "e", "d", " ", "i", "n", " ", "1", "6", "4", "8", ".">>,
      <<"I", "t", " ", "e", "n", "d", "e", "d", " ", "t", "h", "e", " ", "w", "a", "r", ".">> }

\* longest source text, in sentences
MaxSentences == 2

\* the source texts: up to MaxSentences fragments, a space between them
SourceTexts ==
    {Join(<<" ">>, parts) : parts \in UNION {[1..n -> Fragments] : n \in 1..MaxSentences}}

\* the answers looked for: "1648", "the war", "Smith", "He", "44 BC"
Answers ==
    { <<"1", "6", "4", "8">>, <<"t", "h", "e", " ", "w", "a", "r">>,
      <<"S", "m", "i", "t", "h">>, <<"H", "e">>, <<"4", "4", " ", "B", "C">> }

\* a CitationExtractor and the arguments of the call to come
ExtIdle(source_text, answer_text) ==
    [pc |-> "idle", method |-> "", source_text |-> source_text,
     answer_text |-> answer_text, sentences |-> <<>>, citation |-> NULL,
     qualifies |-> FALSE]

\* self._split_into_sentences(source_text) is called and returns
ExtSplitIntoSentences ==
    /\ ext.pc = "idle"
    /\ ext' = [ext EXCEPT !.pc = "done", !.method = "_split_into_sentences",
                          !.sentences = _split_into_sentences(ext.source_text)]
    /\ UNCHANGED <<dec, quiz, client, mapper, parser, shared, session>>

\* self.extract_citation(source_text, answer_text) is called and returns
ExtExtractCitation ==
    /\ ext.pc = "idle"
    /\ ext' = [ext EXCEPT !.pc = "done", !.method = "extract_citation",
                          !.citation = extract_citation(ext.source_text, ext.answer_text,
                                                        DefaultSectionTitle, DefaultSectionUrl)]
    /\ UNCHANGED <<dec, quiz, client, mapper, parser, shared, session>>

\* self.extract_citation_for_question(source_text, question_text,
\* correct_answer) is called and returns
ExtExtractCitationForQuestion ==
    /\ ext.pc = "idle"
    /\ ext' = [ext EXCEPT !.pc = "done", !.method = "extract_citation_for_question",
                          !.citation = extract_citation_for_question(
                                           ext.source_text, <<"Q">>, ext.answer_text,
                                           DefaultSectionTitle, DefaultSectionUrl)]
    /\ UNCHANGED <<dec, quiz, client, mapper, parser, shared, session>>

\* self._contains_answer(source_text, answer_text) is called and returns
ExtContainsAnswer ==
    /\ ext.pc = "idle"
    /\ ext' = [ext EXCEPT !.pc = "done", !.method = "_contains_answer",
                          !.qualifies = _contains_answer(ext.source_text, ext.answer_text)]
    /\ UNCHANGED <<dec, quiz, client, mapper, parser, shared, session>>

ExtNext ==
    \/ ExtContainsAnswer
    \/ ExtSplitIntoSentences
    \/ ExtExtractCitation
    \/ ExtExtractCitationForQuestion

(***************************************************************************)
(* WikipediaClient (wikipedia_client.py)                                   *)
(***************************************************************************)
\* the titles asked for and answered
Titles == {"Mercury", "Mercury (planet)"}

\* what wikipedia.page(title, auto_suggest=...) does: it returns a page, or
\* raises DisambiguationError with its options, PageError, another Exception,
\* or something that is no Exception (KeyboardInterrupt, SystemExit)
BackendResponses ==
    {[kind |-> "page", title |-> t] : t \in Titles}
        \cup {[kind |-> "DisambiguationError", options |-> o] :
                 o \in {<<>>} \cup {<<t>> : t \in Titles}}
        \cup {[kind |-> "PageError"], [kind |-> "Exception"],
              [kind |-> "BaseException"]}

\* most backend fetches one call of get_page makes
MaxFetches == 3

\* the answers of the backend to the fetches of one call, in order
BackendScripts == UNION {[1..n -> BackendResponses] : n \in 0..MaxFetches}

\* most calls of get_page on one client
MaxCalls == 2

\* WikipediaPage(title=page.title, ...): a new object, id is its identity
WikipediaPage(id, title) == [id |-> id, title |-> title]

\* WikipediaClient.__init__: the empty cache (None stands for no entry); ids
\* counts the page objects made; fetches, disambiguations and lookups record
\* what the call of get_page under way has done
ClientNew ==
    [_cache |-> [t \in Titles |-> NULL], ids |-> 0, fetches |-> 0,
     disambiguations |-> 0, lookups |-> <<>>]

\* the value get_page returns, with the client as it leaves it and the
\* answers of the backend it did not use; cut: the answers ran out
GetPageResult(self, ret, backend, cut) ==
    [self |-> self, ret |-> ret, backend |-> backend, cut |-> cut,
     raised |-> FALSE]

\* an exception leaves get_page
GetPageRaises(self, backend) ==
    [self |-> self, ret |-> NULL, backend |-> backend, cut |-> FALSE,
     raised |-> TRUE]

\* a faulty variant: the retry is made whatever auto_suggest is
RetryAlways(auto_suggest) == TRUE

\* if not auto_suggest: the lookup is retried with auto_suggest=True
RetryWithAutoSuggest(auto_suggest) == ~auto_suggest

\* try: return self.get_page(title, auto_suggest=True) / except: pass /
\* return None: whatever the retry raises is dropped
RetryResult(result) ==
    IF result.raised THEN [result EXCEPT !.raised = FALSE, !.ret = NULL]
    ELSE result

\* get_page(title, auto_suggest); fetches, disambiguations and lookups record
\* the calls of wikipedia.page and the first options followed.  A cache hit
\* returns the cached object; else the page is fetched, cached under title
\* and returned; a disambiguation recurses on the first option, a PageError
\* retries once with auto_suggest=True, any other Exception returns None, and
\* what is no Exception leaves get_page
RECURSIVE get_page(_, _, _, _)
get_page(self, title, auto_suggest, backend) ==
    IF self._cache[title] # NULL
    THEN GetPageResult(self, self._cache[title], backend, FALSE)
    ELSE IF backend = <<>> THEN GetPageResult(self, NULL, backend, TRUE)
    ELSE LET response == Head(backend)
             fetched == [self EXCEPT !.fetches = @ + 1,
                                     !.lookups = Append(@, [title |-> title,
                                                            auto_suggest |-> auto_suggest])]
         IN IF response.kind = "page"
            THEN LET wiki_page == WikipediaPage(fetched.ids + 1, response.title)
                 IN GetPageResult([fetched EXCEPT !._cache[title] = wiki_page,
                                                  !.ids = @ + 1],
                                  wiki_page, Tail(backend), FALSE)
            ELSE IF response.kind = "DisambiguationError"
            THEN IF response.options # <<>>
                 THEN get_page([fetched EXCEPT !.disambiguations = @ + 1],
                               response.options[1], FALSE, Tail(backend))
                 ELSE GetPageResult(fetched, NULL, Tail(backend), FALSE)
            ELSE IF response.kind = "PageError"
            THEN IF RetryWithAutoSuggest(auto_suggest)
                 THEN RetryResult(get_page(fetched, title, TRUE, Tail(backend)))
                 ELSE GetPageResult(fetched, NULL, Tail(backend), FALSE)
            ELSE IF response.kind = "Exception"
            THEN GetPageResult(fetched, NULL, Tail(backend), FALSE)
            ELSE GetPageRaises(fetched, Tail(backend))

\* a client nobody has called yet.  returned[t] is the page the last call of
\* get_page(t) that returned one gave; call describes the last call: its
\* arguments, the answers of the backend, its result, the lookups it made and
\* the page an earlier call had returned for the title
ClientIdle ==
    [self |-> ClientNew, calls |-> 0,
     returned |-> [t \in Titles |-> NULL],
     call |-> [title |-> "", auto_suggest |-> FALSE, backend |-> <<>>,
               ret |-> NULL, raised |-> FALSE, fetches |-> 0,
               disambiguations |-> 0, lookups |-> <<>>, earlier |-> NULL]]

\* one call of get_page from outside, with the answers of the backend to the
\* fetches it makes
ClientGetPage ==
    /\ client.calls < MaxCalls
    /\ \E title \in Titles, auto_suggest \in BOOLEAN, backend \in BackendScripts :
         LET result == get_page(client.self, title, auto_suggest, backend)
         IN /\ ~result.cut /\ result.backend = <<>>
            /\ client' = [self |-> [result.self EXCEPT !.lookups = <<>>, !.fetches = 0,
                                                       !.disambiguations = 0],
                          calls |-> client.calls + 1,
                          returned |-> IF result.ret # NULL
                                       THEN [client.returned EXCEPT ![title] = result.ret]
                                       ELSE client.returned,
                          call |-> [title |-> title, auto_suggest |-> auto_suggest,
                                    backend |-> backend,
                                    ret |-> result.ret, raised |-> result.raised,
                                    fetches |-> result.self.fetches - client.self.fetches,
                                    disambiguations |-> result.self.disambiguations
                                                          - client.self.disambiguations,
                                    lookups |-> result.self.lookups,
                                    earlier |-> client.returned[title]]]
    /\ UNCHANGED <<dec, quiz, ext, mapper, parser, shared, session>>

ClientNext == ClientGetPage

(***************************************************************************)
(* Agent capability, deception variant (agents.py).  run() returns an      *)
(* output of the agent's type or raises.                                   *)
(***************************************************************************)
\* what the researcher may return as one fact: the language model sets
\* content and is_lie freely ("B" stands for a second, different content)
ResearcherFacts == {Fact("A", FALSE), Fact("B", FALSE), Fact("A", TRUE)}

\* create_researcher_agent().run(topic).output : List[Fact]
ResearcherOutputs == UNION {[1..n -> ResearcherFacts] : n \in 0..MaxFacts}

\* create_deceiver_agent().run(...).output : Fact, is_lie as the model set it
DeceiverOutputs == {Fact("L", TRUE), Fact("L", FALSE)}

\* confidences an auditor reports, in tenths
Confidences == {7, 8, 9}

\* create_auditor_agent().run(statements).output.  agents.py declares the
\* auditor's output type as ValidationResult; run_round reads the fields of a
\* Verdict (models.py), so both shapes are inputs of the controller here.
AuditorOutputs ==
    {Verdict(s, c) : s \in 0..2, c \in Confidences}
        \cup {ValidationResult(v, c) : v \in BOOLEAN, c \in Confidences}

(***************************************************************************)
(* GameManager (game_manager.py)                                           *)
(***************************************************************************)
\* GameManager.__init__: self.max_retries
max_retries == 3

\* the confidence floor of the circuit breaker, 0.8
CONFIDENCE_FLOOR == 8

\* a frame of run_round before the call
DecIdle ==
    [pc |-> "idle", attempt |-> 0, facts |-> <<>>, victim_fact |-> NULL,
     other_facts |-> <<>>, lie_fact |-> NULL, game_facts |-> <<>>,
     statements |-> <<>>,
     verdict |-> NULL, ret |-> NULL,
     calls |-> [researcher |-> 0, deceiver |-> 0, auditor |-> 0],
     log |-> <<>>]

\* the locals of one loop iteration; each is assigned in the iteration before
\* it is read, so an iteration starts with them unset
DecFresh(d) ==
    [d EXCEPT !.facts = <<>>, !.victim_fact = NULL, !.other_facts = <<>>,
              !.lie_fact = NULL, !.game_facts = <<>>, !.statements = <<>>,
              !.verdict = NULL]

\* a faulty variant: a rejected or failed attempt ends the round
DecRetryGivesUp(d, event) ==
    [d EXCEPT !.log = Append(@, event), !.pc = "done", !.ret = NULL]

\* a faulty variant: the next attempt keeps the facts and calls the deceiver
DecNextAttemptFromDeceive(d) ==
    IF d.attempt < max_retries
    THEN IF Len(d.facts) >= 3
         THEN [d EXCEPT !.attempt = @ + 1, !.pc = "deceive",
                        !.calls.deceiver = @ + 1]
         ELSE [DecFresh(d) EXCEPT !.attempt = @ + 1, !.pc = "research",
                                  !.calls.researcher = @ + 1]
    ELSE [d EXCEPT !.pc = "done", !.ret = NULL]

\* a faulty variant of the loop: range(1, max_retries + 2)
DecNextAttemptOneMore(d) ==
    IF d.attempt <= max_retries
    THEN [DecFresh(d) EXCEPT !.attempt = @ + 1, !.pc = "research",
                             !.calls.researcher = @ + 1]
    ELSE [d EXCEPT !.pc = "done", !.ret = NULL]

\* for attempt in range(1, self.max_retries + 1): the next iteration calls the
\* researcher; after the last one run_round logs "Max retries reached" and
\* returns None
DecNextAttempt(d) ==
    IF d.attempt < max_retries
    THEN [DecFresh(d) EXCEPT !.attempt = @ + 1, !.pc = "research",
                             !.calls.researcher = @ + 1]
    ELSE [d EXCEPT !.pc = "done", !.ret = NULL]

\* one line of the attempt's log, then the next iteration
DecRetry(d, event) == DecNextAttempt([d EXCEPT !.log = Append(@, event)])

\* actual_lie_index = next(i for i, f in enumerate(game_facts) if f.is_lie)
actual_lie_index(game_facts) ==
    (CHOOSE i \in 1..Len(game_facts) :
        /\ game_facts[i].is_lie
        /\ \A j \in 1..(i - 1) : ~game_facts[j].is_lie) - 1

\* is_confident = (verdict.confidence >= 0.8)
is_confident(verdict) == verdict.confidence >= CONFIDENCE_FLOOR

\* is_correct = (verdict.selection == actual_lie_index)
is_correct(verdict, game_facts) == verdict.selection = actual_lie_index(game_facts)

\* a faulty variant of the breaker: is_correct or is_confident
CircuitBreakerEitherTest(verdict, game_facts) ==
    IF ~HasAttr(verdict, "selection") THEN "error"
    ELSE IF is_correct(verdict, game_facts) \/ is_confident(verdict) THEN "accepted"
    ELSE "rejected"

\* step 5, the circuit breaker: reading verdict.selection raises
\* AttributeError on an output without that field
CircuitBreaker(verdict, game_facts) ==
    IF ~HasAttr(verdict, "selection") THEN "error"
    ELSE IF is_correct(verdict, game_facts) /\ is_confident(verdict) THEN "accepted"
    ELSE "rejected"

\* a faulty variant: the statements are taken before the shuffle, the truths
\* first and the lie last
AuditorInputLieLast(game_facts) ==
    LET ordered == SelectSeq(game_facts, LAMBDA f : ~f.is_lie)
                       \o SelectSeq(game_facts, LAMBDA f : f.is_lie)
    IN [i \in 1..Len(ordered) |-> ordered[i].content]

\* statements = [f.content for f in game_facts]
AuditorInput(game_facts) == [i \in 1..Len(game_facts) |-> game_facts[i].content]

\* run_round(topic) is called: first iteration
DecCall ==
    /\ dec.pc = "idle"
    /\ dec' = DecNextAttempt(dec)
    /\ UNCHANGED <<quiz, ext, client, mapper, parser, shared, session>>

\* step 1: the researcher returns.  Fewer than 3 facts: warning, continue.
\* Otherwise step 2 picks the victim and calls the deceiver.
DecResearcherReturns ==
    /\ dec.pc = "research"
    /\ \E facts \in ResearcherOutputs :
         IF Len(facts) < 3
         THEN dec' = DecRetry([dec EXCEPT !.facts = facts], "few_facts")
         ELSE \E i \in 1..3 :
                LET true_facts == Take(facts, 3)
                    victim_fact == true_facts[i]
                    other_facts == SelectSeq(true_facts, LAMBDA f : f # victim_fact)
                IN dec' = [dec EXCEPT !.facts = facts,
                                      !.victim_fact = victim_fact,
                                      !.other_facts = other_facts,
                                      !.pc = "deceive",
                                      !.calls.deceiver = @ + 1]
    /\ UNCHANGED <<quiz, ext, client, mapper, parser, shared, session>>

\* step 2, 3, 4: the deceiver returns; is_lie is forced, the facts are
\* assembled and shuffled, and the auditor is called with the bare contents
DecDeceiverReturns ==
    /\ dec.pc = "deceive"
    /\ \E out \in DeceiverOutputs :
         LET lie_fact == [out EXCEPT !.is_lie = TRUE]
         IN \E game_facts \in Shuffles(dec.other_facts \o <<lie_fact>>) :
              dec' = [dec EXCEPT !.lie_fact = lie_fact,
                                 !.game_facts = game_facts,
                                 !.statements = AuditorInput(game_facts),
                                 !.pc = "audit",
                                 !.calls.auditor = @ + 1]
    /\ UNCHANGED <<quiz, ext, client, mapper, parser, shared, session>>

\* step 5: the auditor returns and the circuit breaker decides
DecAuditorReturns ==
    /\ dec.pc = "audit"
    /\ \E verdict \in AuditorOutputs :
         LET d == [dec EXCEPT !.verdict = verdict]
             outcome == CircuitBreaker(verdict, dec.game_facts)
         IN IF outcome = "accepted"
            THEN dec' = [d EXCEPT !.pc = "accepted", !.log = Append(@, "accepted")]
            ELSE dec' = DecRetry(d, outcome)
    /\ UNCHANGED <<quiz, ext, client, mapper, parser, shared, session>>

\* return GameState(topic=..., raw_facts=..., game_facts=..., auditor_verdict=...)
\* An exception of the constructor is caught by the except clause of the loop.
DecPublish ==
    /\ dec.pc = "accepted"
    /\ LET state == GameState([topic |-> "topic", raw_facts |-> dec.facts,
                               game_facts |-> dec.game_facts,
                               auditor_verdict |-> dec.verdict])
       IN IF state = ValidationError
          THEN dec' = DecRetry(dec, "error")
          ELSE dec' = [dec EXCEPT !.pc = "done", !.ret = state]
    /\ UNCHANGED <<quiz, ext, client, mapper, parser, shared, session>>

\* any awaited agent raises: except Exception logs the error, next iteration
DecAgentRaises ==
    /\ dec.pc \in {"research", "deceive", "audit"}
    /\ dec' = DecRetry(dec, "error")
    /\ UNCHANGED <<quiz, ext, client, mapper, parser, shared, session>>

DecNext ==
    \/ DecCall
    \/ DecResearcherReturns
    \/ DecDeceiverReturns
    \/ DecAuditorReturns
    \/ DecPublish
    \/ DecAgentRaises

(***************************************************************************)
(* Fixtures of the quiz variant: the fetched page and what the agents may  *)
(* answer.                                                                 *)
(***************************************************************************)
\* "Signed in 1648. It ended the war."
Paragraph1 ==
    <<"S", "i", "g", "n", "e", "d", " ", "i", "n", " ", "1", "6", "4", "8",
      ".", " ", "I", "t", " ", "e", "n", "d", "e", "d", " ", "t", "h", "e",
      " ", "w", "a", "r", ".">>

\* "Dr. Ray was born in 476 AD."
Paragraph2 ==
    <<"D", "r", ".", " ", "R", "a", "y", " ", "w", "a", "s", " ", "b", "o",
      "r", "n", " ", "i", "n", " ", "4", "7", "6", " ", "A", "D", ".">>

\* "In 1648. Mars has two moons." : a paragraph that is in no section of the
\* page, and that names the year only in a fragment too short to be a sentence
Paragraph3 ==
    <<"I", "n", " ", "1", "6", "4", "8", ".", " ",
      "M", "a", "r", "s", " ", "h", "a", "s", " ", "t", "w", "o", " ", "m",
      "o", "o", "n", "s", ".">>

\* the page WikipediaClient.get_page returns: url, links and the section map
\* in insertion order (name, text)
ThePage ==
    [title |-> <<"R", "o", "m", "e">>, url |-> <<"w", "/", "R", "o", "m", "e">>,
     links |-> <<<<"A">>, <<"B">>>>,
     sections |-> << [name |-> <<"I", "n", "t", "r", "o", "d", "u", "c", "t", "i", "o", "n">>, text |-> Paragraph1],
                     [name |-> <<"E", "a", "r", "l", "y", " ", "l", "i", "f", "e">>, text |-> Paragraph2] >>]

\* wiki_client.get_page(page_title): a page, or None
PageOutputs == {ThePage, NULL}

\* longest list of paragraphs the section picker returns
MaxSections == 2

\* SelectedSections(sections, reasoning)
SelectedSections(sections) == [sections |-> sections, reasoning |-> "r"]

\* create_section_picker_agent(...).run(page.content).output: a list of
\* different paragraphs
SectionPickerOutputs ==
    {SelectedSections(s) :
        s \in {t \in UNION {[1..n -> {Paragraph1, Paragraph2, Paragraph3}] : n \in 1..MaxSections} :
                  \A i, j \in 1..Len(t) : t[i] = t[j] => i = j}}

\* the four options of a generated question
Options == <<<<"1", "6", "4", "8">>, <<"1", "7", "8", "9">>, <<"t", "h", "e", " ", "w", "a", "r", " ", "e", "n", "d", "e", "d">>, <<"4", "7", "6", " ", "A", "D">>>>

\* Question(question_text, options, correct_answer_index, ...)
Question(question_text, correct_answer_index) ==
    [question_text |-> question_text, options |-> Options,
     correct_answer_index |-> correct_answer_index,
     difficulty |-> "Medium", explanation |-> "e"]

\* create_quiz_maker_agent().run(combined_text).output: the index is whatever
\* integer the language model wrote
QuizMakerOutputs == {Question("Q1", 0), Question("Q2", 1), Question("Q3", 4)}

\* create_auditor_agent().run(str(auditor_input)).output, with a confidence on
\* either side of the floor
ValidationOutputs == {ValidationResult(v, c) : v \in BOOLEAN, c \in {7, 8}}

\* longest ranking the relevance agent returns
MaxLinks == 4

\* RelevanceScore(link_title, relevance_score, reasoning)
RelevanceScore(i) == [link_title |-> <<"L">> \o Str(i), reasoning |-> "r"]

\* create_relevance_agent().run(...).output : List[RelevanceScore]
RelevanceOutputs == {[i \in 1..n |-> RelevanceScore(i)] : n \in 0..MaxLinks}

\* str(e) of the exceptions an agent call raises
ErrorMessages == {<<"5", "0", "3">>, <<"H", "i", "g", "h", " ", "D", "e", "m", "a", "n", "d">>, <<"4", "2", "9">>, <<"n", "o", " ", "k", "e", "y">>}

\* str(e) where the handler does not read the message (every except but the
\* primary section picker's): one overload message and one that is not
OtherErrorMessages == {<<"5", "0", "3">>, <<"n", "o", " ", "k", "e", "y">>}

(***************************************************************************)
(* WikiQuizGameManager (wiki_game_manager.py)                              *)
(***************************************************************************)
\* WikiQuizGameManager.__init__: max_correction_attempts = 3
max_correction_attempts == 3

\* validation.confidence >= 0.8
VALIDATION_FLOOR == 8

\* a faulty variant: the whole ranking is kept
TopLinksAll == MaxLinks

\* relevance_scores[:3]
TOP_LINKS == 3

\* seq[i] of Python, i counted from 0 or, negative, from the end
ValidIndex(seq, i) == -Len(seq) <= i /\ i < Len(seq)

Index(seq, i) == IF i < 0 THEN seq[Len(seq) + i + 1] ELSE seq[i + 1]

\* a faulty variant of the test: 'high demand' in error_msg, without lower()
IsOverloadCaseSensitive(error_msg) ==
    Contains(error_msg, <<"5", "0", "3">>) \/ Contains(error_msg, <<"h", "i", "g", "h", " ", "d", "e", "m", "a", "n", "d">>)

\* '503' in error_msg or 'high demand' in error_msg.lower()
IsOverload(error_msg) ==
    Contains(error_msg, <<"5", "0", "3">>) \/ Contains(Lower(error_msg), <<"h", "i", "g", "h", " ", "d", "e", "m", "a", "n", "d">>)

\* a faulty variant: the generic name is numbered from 0, "Section {i}"
SectionNameZeroBased(wiki_sections, selected_text, i, k) ==
    LET hits == {n \in k..Len(wiki_sections) :
                    Contains(wiki_sections[n].text, Strip(selected_text))}
    IN IF hits = {} THEN <<"S", "e", "c", "t", "i", "o", "n", " ">> \o Str(i)
       ELSE wiki_sections[CHOOSE n \in hits : \A m \in hits : n <= m].name

\* _map_sections_to_names, one index: the first section whose content holds
\* the stripped selected text, else "Section {i+1}" (i is 0-based)
RECURSIVE SectionNameFrom(_, _, _, _)
SectionNameFrom(wiki_sections, selected_text, i, k) ==
    IF k > Len(wiki_sections) THEN <<"S", "e", "c", "t", "i", "o", "n", " ">> \o Str(i + 1)
    ELSE IF Contains(wiki_sections[k].text, Strip(selected_text))
         THEN wiki_sections[k].name
         ELSE SectionNameFrom(wiki_sections, selected_text, i, k + 1)

\* _map_sections_to_names(wiki_sections, selected_texts): entry i + 1 of the
\* result is mapping[i]
_map_sections_to_names(wiki_sections, selected_texts) ==
    [j \in 1..Len(selected_texts) |->
        SectionNameFrom(wiki_sections, selected_texts[j], j - 1, 1)]

\* a frame of run_round before the call
QuizIdle ==
    [pc |-> "idle", page |-> NULL, selected_sections |-> NULL, attempt |-> 0,
     question |-> NULL, relevance_scores |-> NULL, game_state |-> NULL,
     ret |-> NULL,
     calls |-> [section_picker |-> 0, section_picker_fallback |-> 0,
                quiz_maker |-> 0, auditor |-> 0, relevance |-> 0],
     log |-> <<>>]

\* return None
QuizReturnNone(q) == [q EXCEPT !.pc = "done", !.ret = NULL]

\* a faulty variant: the round goes on to the section picker without a page
QuizFetchFailedGoesOn(q) ==
    [q EXCEPT !.pc = "section_picker", !.calls.section_picker = @ + 1]

\* if not page: return None
QuizFetchFailed(q) == QuizReturnNone(q)

\* combined_text = "\n\n".join(selected_sections.sections)
combined_text(selected_sections) == Join(<<"\n", "\n">>, selected_sections.sections)

\* step 4: the section that holds the answer gives the title and the anchored
\* url, the citation is extracted from the combined text; an exception (the
\* index of the answer out of range) leaves the state without a citation
QuizCitation(q) ==
    LET question == q.game_state.question
        sections == q.selected_sections.sections
        section_mapping == _map_sections_to_names(q.page.sections, sections)
    IN IF ~ValidIndex(question.options, question.correct_answer_index)
       THEN q.game_state
       ELSE LET correct_answer == Index(question.options, question.correct_answer_index)
                hits == {i \in 1..Len(sections) :
                            _contains_answer(sections[i], correct_answer)}
                first == CHOOSE i \in hits : \A j \in hits : i <= j
                section_name == IF hits = {} THEN <<"W", "i", "k", "i", "p", "e", "d", "i", "a">> ELSE section_mapping[first]
                section_url == IF hits = {} THEN q.page.url
                               ELSE q.page.url \o <<"#">>
                                      \o Replace(section_name, <<" ">>, <<"_">>)
                citation == extract_citation_for_question(
                                combined_text(q.selected_sections),
                                question.question_text, correct_answer,
                                section_name, section_url)
            IN IF citation # NULL
               THEN [q.game_state EXCEPT !.source_citation = citation]
               ELSE q.game_state

\* after the loop: no question, return None; else step 4, then step 5 calls
\* the relevance agent
QuizAfterLoop(q) ==
    IF q.game_state.question = NULL THEN QuizReturnNone(q)
    ELSE [q EXCEPT !.game_state = QuizCitation(q), !.pc = "relevance",
                   !.calls.relevance = @ + 1]

\* game_state.question = question; break
QuizUseQuestion(q) ==
    QuizAfterLoop([q EXCEPT !.game_state.question = q.question])

\* a faulty variant: the loop goes round without advancing attempt
QuizNextAttemptSameAttempt(q) ==
    IF q.attempt < max_correction_attempts
    THEN [q EXCEPT !.attempt = IF @ = 0 THEN 1 ELSE @, !.question = NULL,
                   !.game_state.correction_attempts = IF q.attempt = 0 THEN 1 ELSE q.attempt,
                   !.pc = "quiz_maker", !.calls.quiz_maker = @ + 1]
    ELSE QuizAfterLoop(q)

\* a faulty variant: correction_attempts counts the attempts before this one
QuizNextAttemptCountsRetries(q) ==
    IF q.attempt < max_correction_attempts
    THEN [q EXCEPT !.attempt = @ + 1, !.question = NULL,
                   !.game_state.correction_attempts = q.attempt,
                   !.pc = "quiz_maker", !.calls.quiz_maker = @ + 1]
    ELSE QuizAfterLoop(q)

\* the next iteration of the correction loop: correction_attempts = attempt and
\* the Quiz Maker is called; past the last iteration the loop ends.  An
\* iteration reads question only after its own Quiz Maker call assigned it, so
\* it starts with question unset.
QuizNextAttempt(q) ==
    IF q.attempt < max_correction_attempts
    THEN [q EXCEPT !.attempt = @ + 1, !.question = NULL,
                   !.game_state.correction_attempts = q.attempt + 1,
                   !.pc = "quiz_maker", !.calls.quiz_maker = @ + 1]
    ELSE QuizAfterLoop(q)

\* the section picker (primary or fallback) returned: step 3 starts
QuizSectionsSelected(q, selected_sections) ==
    QuizNextAttempt([q EXCEPT !.selected_sections = selected_sections,
                              !.game_state.selected_sections = selected_sections,
                              !.question = NULL, !.attempt = 0])

\* a faulty variant of the test: confidence > 0.8
ValidationPassedAboveFloor(validation) ==
    validation.is_valid /\ validation.confidence > VALIDATION_FLOOR

\* validation.is_valid and validation.confidence >= 0.8
ValidationPassed(validation) ==
    validation.is_valid /\ validation.confidence >= VALIDATION_FLOOR

\* a faulty variant: the last rejected question is dropped and None returned
QuizValidationFailedHardGate(q) ==
    IF q.attempt < max_correction_attempts
    THEN QuizNextAttempt(q)
    ELSE QuizReturnNone(q)

\* validation failed: retry while attempts are left, else "Using best effort
\* question"
QuizValidationFailed(q) ==
    IF q.attempt < max_correction_attempts
    THEN QuizNextAttempt(q)
    ELSE QuizUseQuestion(q)

\* str(e) of the IndexError of question.options[question.correct_answer_index]
IndexErrorMessage == <<"l", "i", "s", "t", " ", "i", "n", "d", "e", "x", " ", "o", "u", "t", " ", "o", "f", " ", "r", "a", "n", "g", "e">>

\* a faulty variant: no except around the auditor's block, the exception
\* leaves run_round
QuizAuditorFailedPropagates(q, error_msg) ==
    [q EXCEPT !.pc = "done", !.ret = [raised |-> error_msg]]

\* except Exception of the auditor's try block
QuizAuditorFailed(q, error_msg) ==
    LET l == [q EXCEPT !.log = Append(@, [attempt |-> q.attempt,
                                          event |-> "auditor_failed",
                                          error_msg |-> error_msg])]
    IN IF l.attempt = max_correction_attempts
       THEN QuizUseQuestion(l)
       ELSE QuizNextAttempt(l)

\* run_round(page_title) is called: step 1 fetches the page, step 2 calls the
\* primary section picker
QuizCall ==
    /\ quiz.pc = "idle"
    /\ \E page \in PageOutputs :
         LET game_state == GameState([wikipedia_page_title |-> <<"R", "o", "m", "e">>,
                                      wikipedia_url |-> <<>>])
             q == [quiz EXCEPT !.game_state = game_state, !.page = page]
         IN IF page = NULL
            THEN quiz' = QuizFetchFailed(q)
            ELSE quiz' = [q EXCEPT !.game_state.wikipedia_url = page.url,
                                   !.pc = "section_picker",
                                   !.calls.section_picker = @ + 1]
    /\ UNCHANGED <<dec, ext, client, mapper, parser, shared, session>>

QuizPickerReturns ==
    /\ quiz.pc = "section_picker"
    /\ \E out \in SectionPickerOutputs : quiz' = QuizSectionsSelected(quiz, out)
    /\ UNCHANGED <<dec, ext, client, mapper, parser, shared, session>>

\* the primary section picker raises: an overload message goes to the
\* fallback model, any other returns None
QuizPickerRaises ==
    /\ quiz.pc = "section_picker"
    /\ \E error_msg \in ErrorMessages :
         LET q == [quiz EXCEPT !.log = Append(@, [attempt |-> 0,
                                                  event |-> "picker_failed",
                                                  error_msg |-> error_msg])]
         IN IF IsOverload(error_msg)
            THEN quiz' = [q EXCEPT !.pc = "section_picker_fallback",
                                   !.calls.section_picker_fallback = @ + 1]
            ELSE quiz' = QuizReturnNone(q)
    /\ UNCHANGED <<dec, ext, client, mapper, parser, shared, session>>

QuizFallbackReturns ==
    /\ quiz.pc = "section_picker_fallback"
    /\ \E out \in SectionPickerOutputs : quiz' = QuizSectionsSelected(quiz, out)
    /\ UNCHANGED <<dec, ext, client, mapper, parser, shared, session>>

\* the fallback section picker raises too: return None
QuizFallbackRaises ==
    /\ quiz.pc = "section_picker_fallback"
    /\ \E fallback_error \in OtherErrorMessages :
         quiz' = QuizReturnNone([quiz EXCEPT !.log = Append(@, [attempt |-> 0,
                                                        event |-> "fallback_failed",
                                                        error_msg |-> fallback_error])])
    /\ UNCHANGED <<dec, ext, client, mapper, parser, shared, session>>

\* the Quiz Maker returns a question; building the auditor's input reads
\* question.options[question.correct_answer_index] inside the auditor's try
QuizMakerReturns ==
    /\ quiz.pc = "quiz_maker"
    /\ \E question \in QuizMakerOutputs :
         LET q == [quiz EXCEPT !.question = question]
         IN IF ValidIndex(question.options, question.correct_answer_index)
            THEN quiz' = [q EXCEPT !.pc = "auditor", !.calls.auditor = @ + 1]
            ELSE quiz' = QuizAuditorFailed(q, IndexErrorMessage)
    /\ UNCHANGED <<dec, ext, client, mapper, parser, shared, session>>

\* the Quiz Maker raises: return None on the last attempt, else continue
QuizMakerRaises ==
    /\ quiz.pc = "quiz_maker"
    /\ \E error_msg \in OtherErrorMessages :
         LET q == [quiz EXCEPT !.log = Append(@, [attempt |-> quiz.attempt,
                                                  event |-> "quiz_maker_failed",
                                                  error_msg |-> error_msg])]
         IN IF q.attempt = max_correction_attempts
            THEN quiz' = QuizReturnNone(q)
            ELSE quiz' = QuizNextAttempt(q)
    /\ UNCHANGED <<dec, ext, client, mapper, parser, shared, session>>

\* the auditor returns its validation
QuizAuditorReturns ==
    /\ quiz.pc = "auditor"
    /\ \E validation \in ValidationOutputs :
         LET q == [quiz EXCEPT !.log = Append(@, [attempt |-> quiz.attempt,
                                                  event |-> "validation",
                                                  is_valid |-> validation.is_valid,
                                                  confidence |-> validation.confidence])]
         IN IF ValidationPassed(validation)
            THEN quiz' = QuizUseQuestion(q)
            ELSE quiz' = QuizValidationFailed(q)
    /\ UNCHANGED <<dec, ext, client, mapper, parser, shared, session>>

QuizAuditorRaises ==
    /\ quiz.pc = "auditor"
    /\ \E error_msg \in OtherErrorMessages : quiz' = QuizAuditorFailed(quiz, error_msg)
    /\ UNCHANGED <<dec, ext, client, mapper, parser, shared, session>>

\* step 5: available_links = relevance_scores[:3]; return game_state
QuizRelevanceReturns ==
    /\ quiz.pc = "relevance"
    /\ \E relevance_scores \in RelevanceOutputs :
         LET game_state == [quiz.game_state EXCEPT
                               !.available_links = Take(relevance_scores, TOP_LINKS)]
         IN quiz' = [quiz EXCEPT !.relevance_scores = relevance_scores,
                                 !.game_state = game_state, !.pc = "done",
                                 !.ret = game_state]
    /\ UNCHANGED <<dec, ext, client, mapper, parser, shared, session>>

\* the relevance agent raises: the round goes on without links
QuizRelevanceRaises ==
    /\ quiz.pc = "relevance"
    /\ \E error_msg \in OtherErrorMessages :
         quiz' = [quiz EXCEPT !.pc = "done", !.ret = quiz.game_state,
                              !.log = Append(@, [attempt |-> 0,
                                                 event |-> "relevance_failed",
                                                 error_msg |-> error_msg])]
    /\ UNCHANGED <<dec, ext, client, mapper, parser, shared, session>>

QuizNext ==
    \/ QuizCall
    \/ QuizPickerReturns
    \/ QuizPickerRaises
    \/ QuizFallbackReturns
    \/ QuizFallbackRaises
    \/ QuizMakerReturns
    \/ QuizMakerRaises
    \/ QuizAuditorReturns
    \/ QuizAuditorRaises
    \/ QuizRelevanceReturns
    \/ QuizRelevanceRaises

\* the extractor of the quiz rounds, with no call of its own pending
\* ---- _map_sections_to_names as a function of its two arguments ----

\* section names of a page
MapNames == {<<"I", "n", "t", "r", "o">>, <<"L", "i", "f", "e">>}

\* section texts of a page: "ab cd", "cd ef"
MapTexts == {<<"a", "b", " ", "c", "d">>, <<"c", "d", " ", "e", "f">>}

\* wiki_sections: Dict[str, str], the keys different, in insertion order
WikiSectionMaps ==
    {s \in UNION {[1..n -> [name : MapNames, text : MapTexts]] :
                     n \in 0..Cardinality(MapNames)} :
        \A i, j \in 1..Len(s) : s[i].name = s[j].name => i = j}

\* texts a section picker selects: "ab" (in one section text), " cd " (in
\* both once trimmed), "zz" (in none)
SelectedTexts ==
    {<<"a", "b">>, <<" ", "c", "d", " ">>, <<"z", "z">>}

\* longest list of selected texts
MaxSelected == 2

\* selected_texts: list
SelectedTextLists == UNION {[1..n -> SelectedTexts] : n \in 0..MaxSelected}

\* the arguments of a call of _map_sections_to_names, and its result
MapperIdle(wiki_sections, selected_texts) ==
    [pc |-> "idle", wiki_sections |-> wiki_sections,
     selected_texts |-> selected_texts, mapping |-> <<>>]

MapperUnused == MapperIdle(<<>>, <<>>)

\* self._map_sections_to_names(wiki_sections, selected_texts) is called and
\* returns
MapSectionsToNames ==
    /\ mapper.pc = "idle"
    /\ mapper' = [mapper EXCEPT !.pc = "done",
                                !.mapping = _map_sections_to_names(mapper.wiki_sections,
                                                                   mapper.selected_texts)]
    /\ UNCHANGED <<dec, quiz, ext, client, parser, shared, session>>

MapperNext == MapSectionsToNames

\* ---- WikipediaClient._parse_sections as a function of the page content ----

\* str.startswith(prefix), str.endswith(suffix)
StartsWith(s, prefix) ==
    Len(s) >= Len(prefix) /\ SubSeq(s, 1, Len(prefix)) = prefix

EndsWith(s, suffix) ==
    Len(s) >= Len(suffix) /\ SubSeq(s, Len(s) - Len(suffix) + 1, Len(s)) = suffix

\* str.strip(chars)
RECURSIVE FirstNotIn(_, _, _)
FirstNotIn(s, chars, i) ==
    IF i > Len(s) \/ s[i] \notin chars THEN i ELSE FirstNotIn(s, chars, i + 1)

RECURSIVE LastNotIn(_, _, _)
LastNotIn(s, chars, i) ==
    IF i < 1 \/ s[i] \notin chars THEN i ELSE LastNotIn(s, chars, i - 1)

StripChars(s, chars) ==
    SubSeq(s, FirstNotIn(s, chars, 1), LastNotIn(s, chars, Len(s)))

\* str.split(sep), sep one character: the pieces between the separators
RECURSIVE SplitOnFrom(_, _, _, _)
SplitOnFrom(s, sep, i, piece) ==
    IF i > Len(s) THEN <<piece>>
    ELSE IF s[i] = sep
         THEN <<piece>> \o SplitOnFrom(s, sep, i + 1, <<>>)
         ELSE SplitOnFrom(s, sep, i + 1, Append(piece, s[i]))

SplitOn(s, sep) == SplitOnFrom(s, sep, 1, <<>>)

\* sections[key] = value on a dict kept as the sequence of its items in
\* insertion order: a key already there keeps its place and gets the value
DictSet(sections, key, value) ==
    IF \E k \in 1..Len(sections) : sections[k].name = key
    THEN [k \in 1..Len(sections) |->
             IF sections[k].name = key THEN [name |-> key, text |-> value]
             ELSE sections[k]]
    ELSE Append(sections, [name |-> key, text |-> value])

\* line.startswith('==') and line.endswith('==')
IsHeaderLine(line) ==
    StartsWith(line, <<"=", "=">>) /\ EndsWith(line, <<"=", "=">>)

\* if current_content: sections[current_section] = '\n'.join(current_content).strip()
SaveSection(sections, current_section, current_content) ==
    IF current_content # <<>>
    THEN DictSet(sections, current_section, Strip(Join(<<"\n">>, current_content)))
    ELSE sections

\* for line in lines: ... ; then the last section is saved
RECURSIVE ParseLines(_, _, _, _, _)
ParseLines(lines, i, sections, current_section, current_content) ==
    IF i > Len(lines)
    THEN SaveSection(sections, current_section, current_content)
    ELSE IF IsHeaderLine(lines[i])
         THEN ParseLines(lines, i + 1,
                         SaveSection(sections, current_section, current_content),
                         Strip(StripChars(lines[i], {"=", " "})), <<>>)
         ELSE ParseLines(lines, i + 1, sections, current_section,
                         Append(current_content, lines[i]))

\* _parse_sections(content): the dict as the sequence of its items
_parse_sections(content) ==
    ParseLines(SplitOn(content, "\n"), 1, <<>>,
               <<"I", "n", "t", "r", "o", "d", "u", "c", "t", "i", "o", "n">>, <<>>)

\* lines of a page: "== A ==", "=== A ===", "== B ==", "==x", "x", "y" and
\* the empty line
ContentLines ==
    { <<"=", "=", " ", "A", " ", "=", "=">>,
      <<"=", "=", "=", " ", "A", " ", "=", "=", "=">>,
      <<"=", "=", " ", "B", " ", "=", "=">>,
      <<"=", "=", "x">>, <<"x">>, <<"y">>, <<>> }

\* longest page content, in lines
MaxLines == 4

\* the line lists page contents are made of
LineLists == UNION {[1..n -> ContentLines] : n \in 1..MaxLines}

\* the argument of a call of _parse_sections (with the lines it was written
\* from) and its result
ParserIdle(lines) ==
    [pc |-> "idle", lines |-> lines, content |-> Join(<<"\n">>, lines),
     sections |-> <<>>]

ParserUnused == ParserIdle(<<>>)

\* self._parse_sections(page.content) is called and returns
ParseSections ==
    /\ parser.pc = "idle"
    /\ parser' = [parser EXCEPT !.pc = "done",
                                !.sections = _parse_sections(parser.content)]
    /\ UNCHANGED <<dec, quiz, ext, client, mapper, shared, session>>

ParserNext == ParseSections

\* ---- get_page called from several threads on one WikipediaClient ----

\* the threads that call get_page on the same client
MaxThreads == 2

Threads == 1..MaxThreads

\* most calls of get_page the threads start
MaxSharedCalls == 2

\* a thread that is not inside get_page; swallow: the frame is the retry of
\* the PageError handler, whose exceptions are dropped
SharedFrameIdle ==
    [pc |-> "idle", title |-> "", auto_suggest |-> FALSE, swallow |-> FALSE,
     ret |-> NULL, raised |-> FALSE]

\* the client the threads share.  backend[title, auto_suggest] is the answer
\* wikipedia.page gave for these arguments, None while it was not asked: the
\* backend answers the same arguments the same way
SharedNew ==
    [_cache |-> [t \in Titles |-> NULL], ids |-> 0, calls |-> 0,
     backend |-> [k \in Titles \X BOOLEAN |-> NULL],
     threads |-> [th \in Threads |-> SharedFrameIdle]]

\* return from get_page
SharedReturn(frame, ret) == [frame EXCEPT !.pc = "done", !.ret = ret]

\* a thread calls get_page(title, auto_suggest)
SharedCall(th) ==
    /\ shared.threads[th].pc \in {"idle", "done"}
    /\ shared.calls < MaxSharedCalls
    /\ \E title \in Titles, auto_suggest \in BOOLEAN :
         shared' = [shared EXCEPT !.calls = @ + 1,
                                  !.threads[th] = [SharedFrameIdle EXCEPT
                                                      !.pc = "check", !.title = title,
                                                      !.auto_suggest = auto_suggest]]
    /\ UNCHANGED <<dec, quiz, ext, client, mapper, parser, session>>

\* if title in self._cache: return self._cache[title]; else wikipedia.page
\* is called, and other threads run while it waits for the answer
SharedCheck(th) ==
    LET frame == shared.threads[th]
    IN /\ frame.pc = "check"
       /\ IF shared._cache[frame.title] # NULL
          THEN shared' = [shared EXCEPT !.threads[th] =
                                           SharedReturn(frame, shared._cache[frame.title])]
          ELSE shared' = [shared EXCEPT !.threads[th].pc = "fetch"]
       /\ UNCHANGED <<dec, quiz, ext, client, mapper, parser, session>>

\* wikipedia.page answers: the page is stored with self._cache[title] =
\* wiki_page and returned; the handlers call get_page again or return None
SharedFetch(th) ==
    LET frame == shared.threads[th]
        key == <<frame.title, frame.auto_suggest>>
    IN /\ frame.pc = "fetch"
       /\ \E response \in BackendResponses :
            /\ shared.backend[key] \in {NULL, response}
            /\ LET answered == [shared EXCEPT !.backend[key] = response]
               IN IF response.kind = "page"
                  THEN LET wiki_page == WikipediaPage(shared.ids + 1, response.title)
                       IN shared' = [answered EXCEPT
                                        !._cache[frame.title] = wiki_page,
                                        !.ids = @ + 1,
                                        !.threads[th] = SharedReturn(frame, wiki_page)]
                  ELSE IF response.kind = "DisambiguationError" /\ response.options # <<>>
                  THEN shared' = [answered EXCEPT
                                     !.threads[th] = [frame EXCEPT
                                                         !.pc = "check",
                                                         !.title = response.options[1],
                                                         !.auto_suggest = FALSE]]
                  ELSE IF response.kind = "PageError"
                          /\ RetryWithAutoSuggest(frame.auto_suggest)
                  THEN shared' = [answered EXCEPT
                                     !.threads[th] = [frame EXCEPT
                                                         !.pc = "check",
                                                         !.auto_suggest = TRUE,
                                                         !.swallow = TRUE]]
                  ELSE IF response.kind = "BaseException" /\ ~frame.swallow
                  THEN shared' = [answered EXCEPT
                                     !.threads[th] = [frame EXCEPT !.pc = "done",
                                                                   !.raised = TRUE]]
                  ELSE shared' = [answered EXCEPT
                                     !.threads[th] = SharedReturn(frame, NULL)]
       /\ UNCHANGED <<dec, quiz, ext, client, mapper, parser, session>>

SharedNext ==
    \E th \in Threads : SharedCall(th) \/ SharedCheck(th) \/ SharedFetch(th)

(***************************************************************************)
(* The session layer (src/app.py): Streamlit runs the script from the top  *)
(* on every interaction with a widget and after every st.rerun(); the      *)
(* session state is what survives from one run to the next                 *)
(***************************************************************************)
\* rounds that run_round is allowed to produce in one session
MaxRounds == 3

\* the three statements shown, by position
StatementIndexes == 0..2

\* manager.run_round(topic) returns a GameState (told apart by the position
\* of its lie), returns None, or raises
RunRoundOutcomes ==
    {[kind |-> "GameState", lie |-> i] : i \in StatementIndexes}
        \cup {[kind |-> "None"], [kind |-> "Exception"]}

\* the GameState object a call of run_round returns; ids tell the objects apart
GameStateOf(s, outcome) == [id |-> s.ids + 1, lie |-> outcome.lie]

\* st.button(..., key=f"btn_{i}")
CallButton(i) == [key |-> "btn", i |-> i]

\* the widgets the script can draw; a button is named by its label
TopicInput == [key |-> "Enter a topic:"]
StartButton == [key |-> "Start Round"]
NextButton == [key |-> "Next Round"]
AgainButton == [key |-> "Play Again"]
NoWidget == [key |-> "st.rerun"]

\* session state after the first run of the script in a new session: the
\* defaults of lines 49-68, with the topic input and Start Round drawn
SessionNew ==
    [game_state |-> NULL, user_guess |-> NULL, revealed |-> FALSE,
     streak_score |-> 0, streak_active |-> FALSE, game_over |-> FALSE,
     load_next_round |-> FALSE, next_round_state |-> NULL,
     ids |-> 0, rendered |-> {TopicInput, StartButton}, rerun |-> FALSE,
     event |-> NoWidget, correct |-> 0]

\* top of the script: the topic input is drawn only outside a streak
BeginRun(s, widget) ==
    [s EXCEPT !.rendered = IF s.streak_active THEN {} ELSE {TopicInput},
              !.rerun = FALSE,
              !.event = widget]

\* if st.session_state.get("load_next_round", False): the fallback load
HandleLoadNextRound(s, outcome) ==
    IF ~s.load_next_round THEN s
    ELSE LET reset == [s EXCEPT !.load_next_round = FALSE,
                                !.game_state = NULL,
                                !.user_guess = NULL,
                                !.revealed = FALSE]
         IN IF outcome.kind = "Exception"
            THEN [reset EXCEPT !.game_over = TRUE]
            ELSE IF outcome.kind = "GameState"
            THEN [reset EXCEPT !.game_state = GameStateOf(s, outcome),
                               !.ids = @ + 1,
                               !.rerun = TRUE]
            ELSE reset

\* if not st.session_state.streak_active: if st.button("Start Round")
StartRound(s, widget, outcome) ==
    IF s.rerun \/ s.streak_active THEN s
    ELSE LET shown == [s EXCEPT !.rendered = @ \cup {StartButton}]
             reset == [shown EXCEPT !.game_state = NULL,
                                    !.user_guess = NULL,
                                    !.revealed = FALSE]
         IN IF widget # StartButton THEN shown
            ELSE IF outcome.kind = "GameState"
            THEN [reset EXCEPT !.game_state = GameStateOf(s, outcome),
                               !.ids = @ + 1,
                               !.rerun = TRUE]
            ELSE reset

\* the three statements, each with its "Call Bullshit" button while the
\* round is not revealed; the clicked button stores the guess and reruns
GameInterface(s, widget) ==
    IF s.rerun \/ s.game_state = NULL \/ s.revealed THEN s
    ELSE IF \E i \in StatementIndexes : widget = CallButton(i)
    THEN [s EXCEPT !.rendered = @ \cup {CallButton(i) : i \in 0..widget.i},
                   !.user_guess = [index |-> widget.i],
                   !.revealed = TRUE,
                   !.rerun = TRUE]
    ELSE [s EXCEPT !.rendered = @ \cup {CallButton(i) : i \in StatementIndexes}]

\* a pre-load that shows its round at once instead of keeping it in the slot
PreLoadIntoGameState(s, outcome) ==
    IF \/ s.rerun \/ s.game_state = NULL \/ s.revealed
       \/ ~s.streak_active \/ s.next_round_state # NULL
    THEN s
    ELSE IF outcome.kind = "GameState"
    THEN [s EXCEPT !.game_state = GameStateOf(s, outcome), !.ids = @ + 1]
    ELSE [s EXCEPT !.next_round_state = NULL]

\* while the round is not revealed and a streak is active, and the slot is
\* empty: st.session_state.next_round_state = run_round(topic), None when
\* it raises
PreLoad(s, outcome) ==
    IF \/ s.rerun \/ s.game_state = NULL \/ s.revealed
       \/ ~s.streak_active \/ s.next_round_state # NULL
    THEN s
    ELSE IF outcome.kind = "GameState"
    THEN [s EXCEPT !.next_round_state = GameStateOf(s, outcome), !.ids = @ + 1]
    ELSE [s EXCEPT !.next_round_state = NULL]

\* is_correct = (user_guess == actual_lie_index)
IsCorrect(s) == s.user_guess # NULL /\ s.user_guess.index = s.game_state.lie

\* the branch of a correct guess: the score line, then the Next Round button
RevealCorrect(s, widget) ==
    LET scored == [s EXCEPT !.streak_score = @ + 1,
                            !.streak_active = TRUE,
                            !.rendered = @ \cup {NextButton}]
    IN IF widget # NextButton THEN scored
       ELSE IF scored.next_round_state # NULL
       THEN [scored EXCEPT !.game_state = scored.next_round_state,
                           !.next_round_state = NULL,
                           !.user_guess = NULL,
                           !.revealed = FALSE,
                           !.rerun = TRUE]
       ELSE [scored EXCEPT !.load_next_round = TRUE,
                           !.revealed = FALSE,
                           !.rerun = TRUE]

\* the branch of a wrong guess: game over, the slot is cleared, Play Again
RevealWrong(s, widget) ==
    LET over == [s EXCEPT !.game_over = TRUE,
                          !.next_round_state = NULL,
                          !.rendered = @ \cup {AgainButton}]
    IN IF widget # AgainButton THEN over
       ELSE [over EXCEPT !.streak_score = 0,
                         !.streak_active = FALSE,
                         !.game_over = FALSE,
                         !.game_state = NULL,
                         !.user_guess = NULL,
                         !.revealed = FALSE,
                         !.load_next_round = FALSE,
                         !.next_round_state = NULL,
                         !.rerun = TRUE]

\* if st.session_state.get("revealed", False): the reveal phase
RevealPhase(s, widget) ==
    IF s.rerun \/ s.game_state = NULL \/ ~s.revealed THEN s
    ELSE IF IsCorrect(s) THEN RevealCorrect(s, widget)
    ELSE RevealWrong(s, widget)

\* one run of the script, top to bottom or up to the first st.rerun()
ScriptRun(s, widget, outcome) ==
    LET begun == BeginRun(s, widget)
        loaded == HandleLoadNextRound(begun, outcome)
        started == StartRound(loaded, widget, outcome)
        shown == GameInterface(started, widget)
        preloaded == PreLoad(shown, outcome)
    IN RevealPhase(preloaded, widget)

\* the rounds guessed correctly since the last Play Again, counted where
\* the guess is made (a history of the session, not a field of the program)
CorrectAfter(s, widget) ==
    IF widget = AgainButton THEN 0
    ELSE IF /\ s.game_state # NULL
            /\ \E i \in StatementIndexes : widget = CallButton(i)
            /\ widget.i = s.game_state.lie
    THEN s.correct + 1
    ELSE s.correct

\* the user acts on a widget the last run drew: the script runs with it
SessionClick(widget) ==
    /\ ~session.rerun
    /\ widget \in session.rendered
    /\ \E outcome \in RunRoundOutcomes :
          /\ outcome.kind = "GameState" => session.ids < MaxRounds
          /\ session' = [ScriptRun(session, widget, outcome) EXCEPT
                            !.correct = CorrectAfter(session, widget)]
    /\ UNCHANGED <<dec, quiz, ext, client, mapper, parser, shared>>

\* st.rerun() ended the last run: the script runs again with no widget set
SessionRerun ==
    /\ session.rerun
    /\ \E outcome \in RunRoundOutcomes :
          /\ outcome.kind = "GameState" => session.ids < MaxRounds
          /\ session' = ScriptRun(session, NoWidget, outcome)
    /\ UNCHANGED <<dec, quiz, ext, client, mapper, parser, shared>>

Widgets ==
    {TopicInput, StartButton, NextButton, AgainButton}
        \cup {CallButton(i) : i \in StatementIndexes}

SessionNext == SessionRerun \/ \E widget \in Widgets : SessionClick(widget)

ExtUnused == ExtIdle(<<>>, <<>>)

QuizInit == dec = DecIdle /\ quiz = QuizIdle /\ ext = ExtUnused /\ client = ClientIdle
    /\ mapper = MapperUnused
    /\ parser = ParserUnused
    /\ shared = SharedNew
    /\ session = SessionNew

SpecQuiz == QuizInit /\ [][QuizNext]_vars

DecInit == dec = DecIdle /\ quiz = QuizIdle /\ ext = ExtUnused /\ client = ClientIdle
    /\ mapper = MapperUnused
    /\ parser = ParserUnused
    /\ shared = SharedNew
    /\ session = SessionNew

SpecDeception == DecInit /\ [][DecNext]_vars

ExtInit ==
    /\ dec = DecIdle /\ quiz = QuizIdle /\ client = ClientIdle
    /\ mapper = MapperUnused
    /\ parser = ParserUnused
    /\ shared = SharedNew
    /\ session = SessionNew
    /\ \E source_text \in SourceTexts, answer_text \in Answers :
          ext = ExtIdle(source_text, answer_text)

SpecExtractor == ExtInit /\ [][ExtNext]_vars

ClientInit == dec = DecIdle /\ quiz = QuizIdle /\ ext = ExtUnused /\ client = ClientIdle
    /\ mapper = MapperUnused
    /\ parser = ParserUnused
    /\ shared = SharedNew
    /\ session = SessionNew

SpecClient == ClientInit /\ [][ClientNext]_vars

MapperInit ==
    /\ dec = DecIdle /\ quiz = QuizIdle /\ ext = ExtUnused /\ client = ClientIdle
    /\ parser = ParserUnused
    /\ shared = SharedNew
    /\ session = SessionNew
    /\ \E wiki_sections \in WikiSectionMaps, selected_texts \in SelectedTextLists :
          mapper = MapperIdle(wiki_sections, selected_texts)

SpecMapper == MapperInit /\ [][MapperNext]_vars

ParserInit ==
    /\ dec = DecIdle /\ quiz = QuizIdle /\ ext = ExtUnused /\ client = ClientIdle
    /\ mapper = MapperUnused /\ shared = SharedNew
    /\ session = SessionNew
    /\ \E lines \in LineLists : parser = ParserIdle(lines)

SpecParser == ParserInit /\ [][ParserNext]_vars

SharedInit ==
    /\ dec = DecIdle /\ quiz = QuizIdle /\ ext = ExtUnused /\ client = ClientIdle
    /\ mapper = MapperUnused /\ parser = ParserUnused
    /\ shared = SharedNew
    /\ session = SessionNew

SpecShared == SharedInit /\ [][SharedNext]_vars

SessionInit ==
    /\ dec = DecIdle /\ quiz = QuizIdle /\ ext = ExtUnused /\ client = ClientIdle
    /\ mapper = MapperUnused /\ parser = ParserUnused
    /\ shared = SharedNew
    /\ session = SessionNew

SpecSession == SessionInit /\ [][SessionNext]_vars

(***************************************************************************)
(* Properties of the deception round (SpecDeception)                       *)
(***************************************************************************)
\* the presented facts flagged as the lie
FlaggedLies(game_facts) == {i \in 1..Len(game_facts) : game_facts[i].is_lie}

\* the verdict selects the presented fact flagged as the lie (the first one
\* when several are flagged), with confidence of at least 0.8
AuditAgrees(verdict, game_facts) ==
    /\ HasAttr(verdict, "selection")
    /\ verdict.selection + 1 \in FlaggedLies(game_facts)
    /\ \A i \in FlaggedLies(game_facts) : verdict.selection + 1 <= i
    /\ verdict.confidence >= 8

\* C1: an attempt passes the circuit breaker, and run_round returns a
\* GameState, only with a verdict whose selection is the index of a presented
\* fact flagged as the lie and whose confidence is at least 0.8; a confident
\* wrong selection and an unconfident right one are never published, the
\* last attempt included.
C1_PublishedOnlyWhenAuditAgrees ==
    (dec.pc = "accepted" \/ dec.ret # NULL) => AuditAgrees(dec.verdict, dec.game_facts)

\* the third attempt ended with a confident wrong selection and nothing was
\* published
C1_ConfidentWrongGuessOnLastAttempt ==
    /\ dec.pc = "done" /\ dec.attempt = 3 /\ dec.ret = NULL
    /\ HasAttr(dec.verdict, "selection")
    /\ dec.verdict.confidence >= 8
    /\ dec.verdict.selection + 1 \notin FlaggedLies(dec.game_facts)

\* C2: in every attempt that reaches the audit stage exactly one presented
\* fact has is_lie = true, whatever the researcher and the deceiver returned.
C2_ExactlyOneLiePresented ==
    dec.pc = "audit" => Cardinality(FlaggedLies(dec.game_facts)) = 1

\* every line of the log so far is a rejection by the circuit breaker
OnlyRejections == \A i \in 1..Len(dec.log) : dec.log[i] = "rejected"

\* C3: when every audit is rejected the controller makes exactly 3 attempts
\* (3 researcher, 3 deceiver and 3 auditor calls) and then returns null; no
\* agent is ever called a fourth time.
C3_RejectedAuditsTakeThreeAttempts ==
    /\ dec.calls.researcher <= 3 /\ dec.calls.deceiver <= 3 /\ dec.calls.auditor <= 3
    /\ OnlyRejections =>
          IF dec.pc = "done"
          THEN /\ Len(dec.log) = 3
               /\ dec.calls = [researcher |-> 3, deceiver |-> 3, auditor |-> 3]
               /\ dec.ret = NULL
          ELSE Len(dec.log) < 3

\* run_round returned after three rejected audits
C3_ThreeRejectionsThenNull ==
    dec.pc = "done" /\ Len(dec.log) = 3 /\ OnlyRejections

\* C4: an attempt in which the researcher returned at least 3 facts, the
\* deceiver a fact and the auditor a verdict that selects the lie with
\* confidence >= 0.8 makes run_round return a non-null GameState, with no
\* further agent call.
C4_AgreeingAuditIsReturned ==
    /\ dec.pc = "done" /\ (\E i \in 1..Len(dec.log) : dec.log[i] = "accepted")
         => dec.ret # NULL
    /\ (\E i \in 1..Len(dec.log) : dec.log[i] = "accepted")
         => dec.log[Len(dec.log)] = "accepted"

(***************************************************************************)
(* Properties of the quiz round (SpecQuiz)                                 *)
(***************************************************************************)
\* the lines the correction loop logged, one or none per attempt
LoopLog == SelectSeq(quiz.log, LAMBDA e : e.attempt > 0)

\* a logged validation with is_valid and confidence >= 0.8
PassedValidation(e) == e.event = "validation" /\ e.is_valid /\ e.confidence >= 8

\* a logged validation that was rejected
RejectedValidation(e) == e.event = "validation" /\ ~(e.is_valid /\ e.confidence >= 8)

\* the loop is over with the question of attempt k in the state, and what
\* run_round returns carries it with correction_attempts = k
PublishesAttempt(k) ==
    /\ quiz.pc \in {"relevance", "done"}
    /\ quiz.attempt = k
    /\ quiz.question # NULL
    /\ quiz.game_state.question = quiz.question
    /\ quiz.game_state.correction_attempts = k
    /\ quiz.pc = "done" =>
          /\ quiz.ret # NULL
          /\ quiz.ret.question = quiz.question
          /\ quiz.ret.correction_attempts = k

\* C5: when a validation first passes (is_valid and confidence >= 0.8) at
\* attempt k, the loop stops there and the returned GameState has the question
\* generated at attempt k and correction_attempts = k.
C5_FirstValidQuestionIsReturned ==
    \A i \in 1..Len(LoopLog) :
        PassedValidation(LoopLog[i]) =>
            i = Len(LoopLog) /\ PublishesAttempt(LoopLog[i].attempt)

\* invalid, invalid, valid: the round returned at attempt 3
C5_ValidOnThirdAttempt ==
    /\ quiz.pc = "done" /\ Len(LoopLog) = 3
    /\ RejectedValidation(LoopLog[1]) /\ RejectedValidation(LoopLog[2])
    /\ PassedValidation(LoopLog[3])
    /\ quiz.ret.correction_attempts = 3

\* every attempt of the loop generated a question that validation rejected
AllAttemptsRejected ==
    /\ Len(LoopLog) = max_correction_attempts
    /\ \A i \in 1..Len(LoopLog) :
          LoopLog[i].attempt = i /\ RejectedValidation(LoopLog[i])

\* C6: when the loop exhausts its attempts with every question rejected by
\* validation, run_round still returns a GameState, with the question of the
\* last attempt and correction_attempts = max_correction_attempts.
C6_ExhaustedLoopPublishesLastQuestion ==
    AllAttemptsRejected => PublishesAttempt(max_correction_attempts)

\* the round returned after three rejected validations
C6_ReturnedAfterThreeRejections ==
    AllAttemptsRejected /\ quiz.pc = "done" /\ quiz.ret # NULL

\* the Quiz Maker calls of the round that raised
MakerFailures == Len(SelectSeq(quiz.log, LAMBDA e : e.event = "quiz_maker_failed"))

\* C7: once the sections are selected, run_round never returns null when at
\* least one Quiz Maker call returned a question.
C7_GeneratedQuestionIsPublished ==
    (quiz.pc = "done" /\ quiz.selected_sections # NULL
        /\ quiz.calls.quiz_maker > MakerFailures) => quiz.ret # NULL

\* C8: every returned GameState has a question whose correct_answer_index
\* indexes its options and a citation for the correct option.
C8_ReturnedQuestionIsGrounded ==
    quiz.ret # NULL =>
        /\ quiz.ret.question.correct_answer_index \in
              0..(Len(quiz.ret.question.options) - 1)
        /\ quiz.ret.source_citation # NULL

\* no agent of the quiz round was called
NoAgentCalled ==
    quiz.calls = [section_picker |-> 0, section_picker_fallback |-> 0,
                  quiz_maker |-> 0, auditor |-> 0, relevance |-> 0]

\* C9: when get_page returns nothing, run_round returns null and calls no
\* agent at all.
C9_FetchFailureEndsTheRound ==
    (quiz.pc # "idle" /\ quiz.page = NULL) =>
        quiz.pc = "done" /\ quiz.ret = NULL /\ NoAgentCalled

\* run_round returned after a failed fetch
C9_FetchFailed == quiz.pc = "done" /\ quiz.page = NULL

\* the messages of ErrorMessages with an overload signature (503, high demand)
OverloadClass == {<<"5", "0", "3">>, <<"H", "i", "g", "h", " ", "D", "e", "m", "a", "n", "d">>}

\* the failures of the primary section picker logged so far
PickerFailures == SelectSeq(quiz.log, LAMBDA e : e.event = "picker_failed")

FallbackFailed == \E i \in 1..Len(quiz.log) : quiz.log[i].event = "fallback_failed"

\* C10: the fallback section picker is called exactly once when the primary
\* call fails with an overload-class error and never otherwise; the round
\* goes on with the fallback's sections when it succeeds and returns null when
\* it fails, and a primary failure of another class returns null.
C10_FallbackOnlyOnOverload ==
    /\ quiz.calls.section_picker <= 1 /\ Len(PickerFailures) <= 1
    /\ quiz.calls.section_picker_fallback =
          (IF PickerFailures # <<>> /\ PickerFailures[1].error_msg \in OverloadClass
           THEN 1 ELSE 0)
    /\ (PickerFailures # <<>> /\ PickerFailures[1].error_msg \notin OverloadClass)
          => quiz.pc = "done" /\ quiz.ret = NULL /\ quiz.selected_sections = NULL
    /\ FallbackFailed
          => quiz.pc = "done" /\ quiz.ret = NULL /\ quiz.selected_sections = NULL
    /\ (quiz.calls.section_picker_fallback = 1 /\ ~FallbackFailed
            /\ quiz.pc # "section_picker_fallback")
          => quiz.selected_sections # NULL /\ quiz.calls.quiz_maker >= 1

\* the fallback answered after an overload of the primary and the round went on
C10_FallbackSucceeded ==
    /\ quiz.calls.section_picker_fallback = 1
    /\ quiz.selected_sections # NULL
    /\ quiz.pc = "done" /\ quiz.ret # NULL

\* the messages of the agents' failures with an overload or rate-limit
\* signature (503, high demand, 429)
TransientClass == OverloadClass \cup {<<"4", "2", "9">>}

\* the messages of backend failures that are no overload or rate limit
FatalClass == {<<"n", "o", " ", "k", "e", "y">>}

\* the log lines of failed agent calls carry the message of the exception
IsFailure(e) == "error_msg" \in DOMAIN e

\* C11: an agent failure with an overload or rate-limit message never makes
\* run_round return null at once; a fallback call or another attempt follows.
C11_TransientFailureIsRetried ==
    (quiz.log # <<>> /\ IsFailure(quiz.log[Len(quiz.log)])
        /\ quiz.log[Len(quiz.log)].error_msg \in TransientClass)
      => ~(quiz.pc = "done" /\ quiz.ret = NULL)

\* C12: after an agent failure with a message that is no overload or rate
\* limit, no agent is called any more and run_round returns null.
C12_FatalFailureEndsTheRound ==
    \A i \in 1..Len(quiz.log) :
        (IsFailure(quiz.log[i]) /\ quiz.log[i].error_msg \in FatalClass)
          => i = Len(quiz.log) /\ quiz.pc = "done" /\ quiz.ret = NULL

RelevanceFailed == \E i \in 1..Len(quiz.log) : quiz.log[i].event = "relevance_failed"

\* C13: once the relevance agent was called run_round returns the GameState
\* with the question of the loop: without links when the call failed, else
\* with the first min(3, n) entries of the returned ranking, in its order.
C13_RelevanceIsBestEffort ==
    (quiz.pc = "done" /\ quiz.calls.relevance = 1) =>
        /\ quiz.ret # NULL
        /\ quiz.ret.question = quiz.question /\ quiz.question # NULL
        /\ Len(quiz.ret.available_links) <= 3
        /\ IF RelevanceFailed
           THEN quiz.relevance_scores = NULL /\ quiz.ret.available_links = <<>>
           ELSE LET n == Len(quiz.relevance_scores)
                IN /\ Len(quiz.ret.available_links) = (IF n < 3 THEN n ELSE 3)
                   /\ \A i \in 1..Len(quiz.ret.available_links) :
                         quiz.ret.available_links[i] = quiz.relevance_scores[i]

\* the relevance agent ranked more than 3 links and the round returned
C13_LongRankingTruncated ==
    /\ quiz.pc = "done" /\ quiz.calls.relevance = 1 /\ ~RelevanceFailed
    /\ Len(quiz.relevance_scores) > 3
    /\ Len(quiz.ret.available_links) = 3

(***************************************************************************)
(* Properties of the citation extractor (SpecExtractor)                    *)
(***************************************************************************)
\* "Dr. Smith arrived. He left."
DrSmithText ==
    <<"D", "r", ".", " ", "S", "m", "i", "t", "h", " ", "a", "r", "r", "i", "v", "e", "d", ".", " ", "H", "e", " ", "l", "e", "f", "t", ".">>

\* C15: "Dr. Smith arrived. He left." is split into exactly two sentences, the
\* second being "He left.".
C15_DrSmithTwoSentences ==
    (ext.pc = "done" /\ ext.method = "_split_into_sentences"
        /\ ext.source_text = DrSmithText)
      => /\ Len(ext.sentences) = 2
         /\ ext.sentences[2] = <<"H", "e", " ", "l", "e", "f", "t", ".">>

\* "The treaty was signed in 1648. It ended the war."
TreatyText ==
    <<"T", "h", "e", " ", "t", "r", "e", "a", "t", "y", " ", "w", "a", "s", " ", "s", "i", "g", "n", "e", "d", " ", "i", "n", " ", "1", "6", "4", "8", ".", " ", "I", "t", " ", "e", "n", "d", "e", "d", " ", "t", "h", "e", " ", "w", "a", "r", ".">>

\* the kept sentences of the call's source text, and the positions (from 1)
\* of those that qualify for its answer
KeptSentences == _split_into_sentences(ext.source_text)

Qualifying ==
    {i \in 1..Len(KeptSentences) : _contains_answer(KeptSentences[i], ext.answer_text)}

\* C16: extract_citation returns a citation iff a kept sentence qualifies, and
\* then the first qualifying one, trimmed, with its position among the kept
\* sentences; the treaty text with answer "1648" gives its first sentence at
\* index 0.
C16_FirstQualifyingSentenceIsCited ==
    (ext.pc = "done" /\ ext.method = "extract_citation") =>
        /\ (ext.citation # NULL) <=> (Qualifying # {})
        /\ Qualifying # {} =>
              /\ ext.citation.sentence_index + 1 \in Qualifying
              /\ \A i \in Qualifying : ext.citation.sentence_index + 1 <= i
              /\ ext.citation.sentence =
                    Strip(KeptSentences[ext.citation.sentence_index + 1])
        /\ (ext.source_text = TreatyText /\ ext.answer_text = <<"1", "6", "4", "8">>) =>
              /\ ext.citation # NULL
              /\ ext.citation.sentence = SubSeq(TreatyText, 1, 30)
              /\ ext.citation.sentence_index = 0

\* the treaty text was searched for "1648" and a citation came back
C16_TreatyCited ==
    /\ ext.pc = "done" /\ ext.method = "extract_citation"
    /\ ext.source_text = TreatyText /\ ext.answer_text = <<"1", "6", "4", "8">>
    /\ ext.citation # NULL

(***************************************************************************)
(* Properties of the content-source client (SpecClient)                    *)
(***************************************************************************)
\* C17: once get_page has returned a page for a title, a later call with the
\* same title returns the same page object and makes no backend fetch.
C17_RepeatLookupServedFromCache ==
    client.call.earlier # NULL =>
        client.call.ret = client.call.earlier /\ client.call.fetches = 0

\* the agent calls of the round that failed, as logged
FailedCalls == SelectSeq(quiz.log, IsFailure)

Count(seq, x) == Cardinality({k \in 1..Len(seq) : seq[k] = x})

\* seq without its i-th element
Without(seq, i) == SubSeq(seq, 1, i - 1) \o SubSeq(seq, i + 1, Len(seq))

\* C20: every attempt that reaches the audit presents exactly 3 facts: the
\* deceiver's lie and the two of the researcher's first three facts that were
\* not chosen as victim, in some order.
C20_ThreeFactsPresented ==
    dec.pc = "audit" =>
        /\ Len(dec.game_facts) = 3
        /\ \E i \in 1..3 :
              /\ dec.facts[i] = dec.victim_fact
              /\ LET presented == Without(Take(dec.facts, 3), i) \o <<dec.lie_fact>>
                 IN \A k \in 1..3 :
                       Count(dec.game_facts, presented[k]) = Count(presented, presented[k])

\* the orders random.shuffle gives a list of n elements, each as likely as
\* any other: element p[k] of the list comes to slot k
ShuffleOrders(n) ==
    {p \in [1..n -> 1..n] : \A i, j \in 1..n : p[i] = p[j] => i = j}

\* the number of orders of a list of n elements (the lie appended last) that
\* bring the lie to slot k
LieSlotCount(n, k) ==
    IF k > n THEN 0 ELSE Cardinality({p \in ShuffleOrders(n) : p[k] = n})

\* C19: once the victim is chosen, the shuffle brings the lie to each of the
\* slots 0, 1, 2 in the same, positive number of equally likely orders.
C19_LiePositionUniform ==
    dec.pc = "deceive" =>
        LET n == Len(dec.other_facts) + 1
        IN \A k \in 1..3 :
              LieSlotCount(n, k) > 0 /\ LieSlotCount(n, k) = LieSlotCount(n, 1)

\* the researcher's answer was logged as having fewer than 3 facts
FewFactsStep ==
    /\ dec.pc = "research"
    /\ Len(dec'.log) = Len(dec.log) + 1
    /\ dec'.log[Len(dec'.log)] = "few_facts"

\* C21: when the researcher returns fewer than 3 facts, the step that takes its
\* answer calls neither the deceiver nor the auditor and raises nothing (the
\* attempt's log line is the warning, not an error); the attempt is used up:
\* before the third attempt the next researcher call follows with the attempt
\* number one higher, and on the third attempt the round returns null.
C21_FewFactsConsumesTheAttempt ==
    [][FewFactsStep =>
         /\ dec'.calls.deceiver = dec.calls.deceiver
         /\ dec'.calls.auditor = dec.calls.auditor
         /\ IF dec.attempt < 3
            THEN /\ dec'.pc = "research"
                 /\ dec'.attempt = dec.attempt + 1
                 /\ dec'.calls.researcher = dec.calls.researcher + 1
            ELSE /\ dec'.pc = "done"
                 /\ dec'.ret = NULL]_vars

\* three attempts in a row got fewer than 3 facts: null, no other agent called
C21_ThreeShortResearches ==
    /\ dec.pc = "done"
    /\ dec.log = <<"few_facts", "few_facts", "few_facts">>
    /\ dec.calls = [researcher |-> 3, deceiver |-> 0, auditor |-> 0]
    /\ dec.ret = NULL

\* C22: the deceiver is called only in the step in which the researcher
\* returned in the same attempt, on facts of that answer; the auditor only in
\* the step in which the deceiver returned in the same attempt, on the same
\* facts; a researcher call opens an attempt with no facts, lie or verdict; and
\* a rejection, a short answer or an exception before the last attempt is
\* followed by a new researcher call.
C22_StagesInOrderAndFreshRestart ==
    [][/\ dec'.calls.deceiver # dec.calls.deceiver =>
            /\ dec.pc = "research" /\ dec'.pc = "deceive"
            /\ dec'.attempt = dec.attempt
            /\ dec'.calls.deceiver = dec.calls.deceiver + 1
            /\ dec.facts = <<>> /\ Len(dec'.facts) >= 3
            /\ \E i \in 1..3 : dec'.victim_fact = dec'.facts[i]
       /\ dec'.calls.auditor # dec.calls.auditor =>
            /\ dec.pc = "deceive" /\ dec'.pc = "audit"
            /\ dec'.attempt = dec.attempt
            /\ dec'.calls.auditor = dec.calls.auditor + 1
            /\ dec.lie_fact = NULL /\ dec'.lie_fact # NULL
            /\ dec'.facts = dec.facts /\ dec'.other_facts = dec.other_facts
            /\ dec'.verdict = NULL
       /\ dec'.calls.researcher # dec.calls.researcher =>
            /\ dec'.pc = "research"
            /\ dec'.attempt = dec.attempt + 1
            /\ dec'.calls.researcher = dec'.attempt
            /\ dec'.facts = <<>> /\ dec'.other_facts = <<>>
            /\ dec'.game_facts = <<>> /\ dec'.statements = <<>>
            /\ dec'.lie_fact = NULL /\ dec'.verdict = NULL
       /\ (/\ Len(dec'.log) > Len(dec.log)
           /\ dec'.log[Len(dec'.log)] # "accepted"
           /\ dec.attempt < max_retries) =>
            dec'.calls.researcher = dec.calls.researcher + 1]_vars

\* the second attempt reached the auditor after the first was rejected
C22_SecondAttemptAudited ==
    /\ dec.pc = "audit" /\ dec.attempt = 2
    /\ dec.log = <<"rejected">>
    /\ dec.calls = [researcher |-> 2, deceiver |-> 2, auditor |-> 2]

\* the content strings a researcher or deceiver can produce
ContentStrings == {f.content : f \in ResearcherFacts \cup DeceiverOutputs}

\* C23: what the auditor is given is as long as the list of presented facts,
\* its i-th entry is the content string of the i-th presented fact, and every
\* entry is a bare content string.
C23_AuditorSeesContentsOnly ==
    dec.pc \in {"audit", "accepted"} =>
        /\ Len(dec.statements) = Len(dec.game_facts)
        /\ \A i \in 1..Len(dec.game_facts) :
              /\ dec.statements[i] = dec.game_facts[i].content
              /\ dec.statements[i] \in ContentStrings

\* the auditor is asked about three statements, the lie presented first
C23_LiePresentedFirst ==
    /\ dec.pc = "audit"
    /\ Len(dec.game_facts) = 3
    /\ dec.game_facts[1].is_lie
    /\ dec.statements = <<"L", "A", "B">>

\* the logged outcomes of Auditor calls of the correction loop: a validation,
\* or a failure of the call (an answer index out of range fails before the call)
AuditorEntries ==
    SelectSeq(LoopLog, LAMBDA e :
        \/ e.event = "validation"
        \/ e.event = "auditor_failed" /\ e.error_msg # IndexErrorMessage)

\* C24: once a validation has passed at attempt k, the Quiz Maker has been
\* called k times and is not called again, every Auditor call made has its
\* logged outcome and none is pending; and a returned GameState has
\* correction_attempts equal to the number of Quiz Maker calls of the round.
C24_CallsStopAtAcceptance ==
    /\ \A i \in 1..Len(LoopLog) :
          PassedValidation(LoopLog[i]) =>
              /\ quiz.pc \in {"relevance", "done"}
              /\ quiz.calls.quiz_maker = LoopLog[i].attempt
              /\ quiz.calls.auditor = Len(AuditorEntries)
              /\ AuditorEntries[Len(AuditorEntries)] = LoopLog[i]
    /\ (quiz.pc = "done" /\ quiz.ret # NULL) =>
          /\ quiz.ret.correction_attempts = quiz.calls.quiz_maker
          /\ quiz.calls.auditor <= quiz.calls.quiz_maker

\* a round returned a question accepted at attempt 2 after the Quiz Maker
\* had failed at attempt 1: two Quiz Maker calls, one Auditor call
C24_AcceptedAfterMakerFailure ==
    /\ quiz.pc = "done" /\ quiz.ret # NULL
    /\ quiz.ret.correction_attempts = 2
    /\ quiz.calls.quiz_maker = 2 /\ quiz.calls.auditor = 1
    /\ Len(LoopLog) = 2
    /\ LoopLog[1].event = "quiz_maker_failed"
    /\ PassedValidation(LoopLog[2])

\* progress of a deception round: agent calls made, and the acceptance reached
DecMeasure ==
    2 * (dec.calls.researcher + dec.calls.deceiver + dec.calls.auditor)
      + (IF dec.pc = "accepted" THEN 1 ELSE 0)

\* progress of a quiz round: agent calls made
QuizMeasure ==
    quiz.calls.section_picker + quiz.calls.section_picker_fallback
      + quiz.calls.quiz_maker + quiz.calls.auditor + quiz.calls.relevance

\* the numbers of agent calls of a round stay within their limits
CallBounds ==
    /\ dec.calls.researcher <= 3 /\ dec.calls.deceiver <= 3
    /\ dec.calls.auditor <= 3
    /\ quiz.calls.section_picker + quiz.calls.section_picker_fallback <= 2
    /\ quiz.calls.quiz_maker <= max_correction_attempts
    /\ quiz.calls.auditor <= quiz.calls.quiz_maker
    /\ quiz.calls.relevance <= 1

\* the agent call a round that has not returned is waiting for
DecPending == {"research", "deceive", "audit"}

QuizPending ==
    {"section_picker", "section_picker_fallback", "quiz_maker", "auditor",
     "relevance"}

\* C25: a round makes at most 3 calls to each of researcher, deceiver and
\* auditor (deception), at most 2 section-picker calls, at most
\* max_correction_attempts Quiz Maker calls, no more Auditor calls than Quiz
\* Maker calls and at most 1 relevance call (quiz); a round that was called and
\* has not returned is waiting for one agent call (or, in a deception round,
\* is about to return the accepted state); and every step, whichever way the
\* pending call ends, either returns or makes progress on a measure bounded by
\* these limits, so every round returns after a bounded number of steps.
C25_RoundsTerminateWithinCallBounds ==
    /\ [](/\ CallBounds
          /\ dec.pc \in DecPending \cup {"idle", "accepted", "done"}
          /\ quiz.pc \in QuizPending \cup {"idle", "done"}
          /\ dec.pc \in DecPending => DecMeasure > 0
          /\ quiz.pc \in QuizPending => QuizMeasure > 0)
    /\ [][/\ dec' # dec => (dec'.pc = "done" \/ DecMeasure' > DecMeasure)
          /\ quiz' # quiz => (quiz'.pc = "done" \/ QuizMeasure' > QuizMeasure)]_vars

\* a quiz round returned after using every call it may make
C25_QuizRoundUsedEveryCall ==
    /\ quiz.pc = "done"
    /\ quiz.calls = [section_picker |-> 1, section_picker_fallback |-> 1,
                     quiz_maker |-> 3, auditor |-> 3, relevance |-> 1]

\* the ways of writing a source text as fragments with a space between them
FragmentLists == UNION {[1..n -> Fragments] : n \in 1..MaxSentences}

\* C26: segmentation keeps exactly the segments of 10 or more characters: of
\* the sentences a source text is made of, as many are returned as are at least
\* 10 characters long, and every returned sentence is at least 10 characters
\* long.
C26_SegmentsOfTenOrMoreAreKept ==
    ext.method = "_split_into_sentences" =>
        /\ \A k \in 1..Len(ext.sentences) : Len(ext.sentences[k]) >= 10
        /\ \A parts \in FragmentLists :
              Join(<<" ">>, parts) = ext.source_text =>
                  Len(ext.sentences)
                      = Cardinality({k \in 1..Len(parts) : Len(parts[k]) >= 10})

\* C27: a sentence qualifies for an answer iff the answer occurs in it
\* (ignoring case) or the answer has several words and each of its words longer
\* than 2 characters occurs in it; a sentence that contains neither the answer
\* nor any word of it does not qualify.
C27_QualifiesOnlyWithAnswerOrItsWords ==
    ext.method = "_contains_answer" =>
        LET s == Lower(ext.source_text)
            a == Lower(ext.answer_text)
            w == Split(a)
        IN /\ ext.qualifies <=>
                 \/ Contains(s, a)
                 \/ /\ Len(w) > 1
                    /\ \A k \in 1..Len(w) : Len(w[k]) > 2 => Contains(s, w[k])
           /\ (~Contains(s, a) /\ \A k \in 1..Len(w) : ~Contains(s, w[k]))
                 => ~ext.qualifies

\* C28: the citation of a returned quiz state names the selected section its
\* sentence is in: some selected section has the cited sentence among its
\* sentences, the citation's title is the name mapped to that section, and its
\* url is the page url anchored at that name.
C28_CitationTitledByItsSection ==
    (quiz.pc = "done" /\ quiz.ret # NULL /\ quiz.ret.source_citation # NULL) =>
        LET sections == quiz.selected_sections.sections
            mapping == _map_sections_to_names(quiz.page.sections, sections)
            citation == quiz.ret.source_citation
        IN \E i \in 1..Len(sections) :
              /\ \E k \in 1..Len(_split_into_sentences(sections[i])) :
                    _split_into_sentences(sections[i])[k] = citation.sentence
              /\ citation.section_title = mapping[i]
              /\ citation.section_url
                    = quiz.page.url \o <<"#">> \o Replace(mapping[i], <<" ">>, <<"_">>)

\* the sections of the page whose text holds the trimmed j-th selected text
SectionsHolding(j) ==
    {k \in 1..Len(mapper.wiki_sections) :
        Contains(mapper.wiki_sections[k].text, Strip(mapper.selected_texts[j]))}

\* "Section n"
GenericName(n) ==
    <<"S", "e", "c", "t", "i", "o", "n", " ">>
        \o <<(<<"1", "2", "3", "4", "5", "6", "7", "8", "9">>)[n]>>

\* C29: the result has an entry for every index of the selected list, and the
\* entry is the name of the first section, in the order of the section map,
\* whose text holds the trimmed selected text, or "Section i+1" for the i-th
\* (0-based) selected text when no section holds it.
C29_MappingIsTotalFirstMatch ==
    mapper.pc = "done" =>
        /\ DOMAIN mapper.mapping = 1..Len(mapper.selected_texts)
        /\ \A j \in 1..Len(mapper.selected_texts) :
              IF SectionsHolding(j) = {}
              THEN mapper.mapping[j] = GenericName(j)
              ELSE \E k \in SectionsHolding(j) :
                      /\ \A m \in SectionsHolding(j) : k <= m
                      /\ mapper.mapping[j] = mapper.wiki_sections[k].name

\* a text held by both sections got the name of the first, a text held by
\* none the generic name of its place
C29_FirstOfTwoAndGeneric ==
    /\ mapper.pc = "done"
    /\ Len(mapper.wiki_sections) = 2
    /\ mapper.selected_texts = << <<" ", "c", "d", " ">>, <<"z", "z">> >>
    /\ mapper.mapping = << mapper.wiki_sections[1].name,
                           <<"S", "e", "c", "t", "i", "o", "n", " ", "2">> >>

\* C30: one call of get_page follows at most one disambiguation: when the
\* first candidate of an ambiguous title is ambiguous too, get_page returns
\* without looking up a further candidate.
C30_AtMostOneDisambiguationStep ==
    client.calls > 0 => client.call.disambiguations <= 1

\* the last call was made with auto_suggest off and its first lookup failed
\* with page-not-found
FirstLookupNotFound ==
    /\ client.calls > 0
    /\ ~client.call.auto_suggest
    /\ Len(client.call.backend) >= 1
    /\ client.call.backend[1].kind = "PageError"

\* C31: when the lookup of a call with auto_suggest off fails with
\* page-not-found, the next lookup is of the same title with auto_suggest on;
\* unless that lookup is answered by a disambiguation with candidates it is
\* the last one, and when it fails with page-not-found too the call returns
\* nothing; and no exception leaves the call, however the retry ends.
C31_NotFoundRetriedOnceWithAutoSuggest ==
    FirstLookupNotFound =>
        /\ ~client.call.raised
        /\ Len(client.call.lookups) >= 2
        /\ client.call.lookups[1]
              = [title |-> client.call.title, auto_suggest |-> FALSE]
        /\ client.call.lookups[2]
              = [title |-> client.call.title, auto_suggest |-> TRUE]
        /\ ~(/\ client.call.backend[2].kind = "DisambiguationError"
             /\ client.call.backend[2].options # <<>>)
              => Len(client.call.lookups) = 2
        /\ client.call.backend[2].kind = "PageError"
              => Len(client.call.lookups) = 2 /\ client.call.ret = NULL

\* both lookups failed with page-not-found and the call returned nothing
C31_NotFoundTwice ==
    /\ FirstLookupNotFound
    /\ client.call.backend = <<[kind |-> "PageError"], [kind |-> "PageError"]>>
    /\ client.call.fetches = 2
    /\ client.call.ret = NULL /\ ~client.call.raised

\* the positions of the header lines of the parsed content
HeaderPositions ==
    {i \in 1..Len(parser.lines) : IsHeaderLine(parser.lines[i])}

\* the lines after position i (0: from the start) up to the next header line
BlockAfter(i) ==
    LET later == {j \in HeaderPositions : j > i}
        end == IF later = {} THEN Len(parser.lines)
               ELSE (CHOOSE j \in later : \A m \in later : j <= m) - 1
    IN SubSeq(parser.lines, i + 1, end)

\* the title a header line carries, "Introduction" for the start of the page
TitleAt(i) ==
    IF i = 0 THEN <<"I", "n", "t", "r", "o", "d", "u", "c", "t", "i", "o", "n">>
    ELSE Strip(StripChars(parser.lines[i], {"=", " "}))

\* C32: every line that starts and ends with '==' opens a section whose body
\* is the lines after it up to the next such line, and the lines before the
\* first header are the body of "Introduction": for the start of the page and
\* for every header line followed by at least one line, the returned map has
\* the section of that title with those lines (joined, trimmed) as its body.
C32_SectionsAreTheBlocksBetweenHeaders ==
    parser.pc = "done" =>
        \A i \in {0} \cup HeaderPositions :
            BlockAfter(i) # <<>> =>
                \E k \in 1..Len(parser.sections) :
                    /\ parser.sections[k].name = TitleAt(i)
                    /\ parser.sections[k].text = Strip(Join(<<"\n">>, BlockAfter(i)))

\* C37: no content is lost: every line of the input that is no header line
\* occurs (trimmed) in the body of some section of the returned map.
C37_EveryLineIsInSomeSection ==
    parser.pc = "done" =>
        \A i \in 1..Len(parser.lines) :
            ~IsHeaderLine(parser.lines[i]) =>
                \E k \in 1..Len(parser.sections) :
                    Contains(parser.sections[k].text, Strip(parser.lines[i]))

\* C33: a cache entry never changes: once the cache maps a title to a page,
\* no step of any get_page call, in whatever order the calls of several
\* threads interleave, removes the entry or makes it a page of other content.
C33_CacheEntriesNeverChange ==
    [][\A t \in Titles :
          shared._cache[t] # NULL =>
              /\ shared'._cache[t] # NULL
              /\ shared'._cache[t].title = shared._cache[t].title]_vars

(***************************************************************************)
(* Properties of the session layer (SpecSession)                           *)
(***************************************************************************)
\* the last run was the click on Next Round after a correct guess
NextRoundClicked == session'.event = NextButton /\ IsCorrect(session)

\* C34: a pre-fetched round is written only to next_round_state and never to
\* game_state: the run that fills the slot leaves game_state alone; game_state
\* takes a new round only from the slot, in the run of a Next Round click
\* after a correct guess, which empties the slot, or fresh from run_round in
\* a Start Round or fallback load; and the run that reveals a wrong guess and
\* the run of a Play Again click empty the slot without adopting its round.
C34_PrefetchedRoundOnlyAdoptedOnNextRound ==
    [][/\ (session'.next_round_state # NULL
              /\ session'.next_round_state # session.next_round_state)
          => /\ session'.game_state = session.game_state
             /\ session'.game_state # session'.next_round_state
             /\ session'.next_round_state.id = session'.ids
             /\ session'.ids = session.ids + 1
       /\ (session.next_round_state # NULL
              /\ session'.game_state = session.next_round_state)
          => /\ NextRoundClicked
             /\ session'.next_round_state = NULL
       /\ (session'.game_state # NULL /\ session'.game_state # session.game_state)
          => \/ session'.game_state = session.next_round_state /\ NextRoundClicked
             \/ /\ session'.event = StartButton \/ session.load_next_round
                /\ session'.game_state.id = session'.ids
                /\ session'.ids = session.ids + 1
                /\ session'.next_round_state = session.next_round_state
       /\ (session.revealed /\ session.game_state # NULL /\ ~IsCorrect(session))
          => /\ session'.next_round_state = NULL
             /\ session.next_round_state # NULL
                   => session'.game_state # session.next_round_state
       /\ session'.event = AgainButton
          => session'.next_round_state = NULL /\ session'.game_state = NULL]_vars

\* the pre-fetched round has just been adopted by a Next Round click
C34_PrefetchedRoundAdopted ==
    /\ session.event = NextButton
    /\ ~session.load_next_round
    /\ session.game_state # NULL
    /\ session.next_round_state = NULL
    /\ session.rerun

\* C35: whenever a run of the script has ended and the page waits for the
\* user, streak_score equals the number of rounds guessed correctly since the
\* last Play Again: a correct guess is counted exactly once.
C35_StreakCountsEachCorrectGuessOnce ==
    ~session.rerun => session.streak_score = session.correct

(***************************************************************************)
(* The two extraction methods compared (SpecExtractor)                     *)
(***************************************************************************)
\* question texts passed to extract_citation_for_question
QuestionTexts == {<<>>, <<"Q">>, <<"1", "6", "4", "8">>}

\* two results pick the same evidence: both None, or the same sentence at
\* the same index
SameEvidence(a, b) ==
    IF a = NULL \/ b = NULL THEN a = b
    ELSE a.sentence = b.sentence /\ a.sentence_index = b.sentence_index

====
